---- MODULE Spec2Model ----
(***************************************************************************)
(* Model of the customer-support backend's agent core: the keyword scorer  *)
(* and keyword router (agents/router.ts), the LLM router                    *)
(* (agents/router-llm.ts), the three responders and the coordinator         *)
(* (agents/coordinator.ts).                                                 *)
(*                                                                         *)
(* Messages and keywords are strings; scores and confidences are held in    *)
(* hundredths (0.2 is 20, 0.95 is 95), so the sums are the exact decimal     *)
(* sums of the 0.2 and 0.1 increments the code adds.  The code adds them as  *)
(* doubles: its sums differ from the decimal ones by at most a few units in  *)
(* the last place, which never crosses 0.1, 0.2 or 0.95.  Decimal sums that  *)
(* are equal and at least 0.6 can differ in the last place as doubles when   *)
(* the increments came in a different order (a decimal 1 can be the double   *)
(* just below 1); no message of the vocabulary below reaches such a sum on   *)
(* two categories at once.                                                   *)
(***************************************************************************)
EXTENDS Integers, Sequences, FiniteSets, TLC

VARIABLES
    orderKeywords,      \* RouterAgentImpl.orderKeywords
    billingKeywords,    \* RouterAgentImpl.billingKeywords
    supportKeywords,    \* RouterAgentImpl.supportKeywords
    scorer,             \* one call of calculateScore: its arguments and result
    routeLog,           \* the calls of RouterAgentImpl.route made so far, in order
    useLLMRouter,       \* AgentCoordinator.useLLMRouter: which router is wired in
    orderTable,         \* the orders table of the database
    pc,                 \* where the current processMessage call stands
    callMessage,        \* processMessage's message argument
    callContext,        \* processMessage's context argument (the caller's object)
    routingDecision,    \* routingDecision, the router's decision
    invoked,            \* the responders invoked by this call, with their context
    toolCalls,          \* the tool functions called by this call, in order
    handlerResponse,    \* the AgentResponse as the responder returned it
    response,           \* the AgentResponse processMessage returns
    llmCall,            \* what the text-generation call of this request did
    store,              \* the conversation row and its message rows in the database
    sendError,          \* the error the last call of the service threw, if it threw
    lastCall,           \* the last call of the service: the method, the caller, the id given
    sends,              \* the sendMessage calls in flight side by side, each with its locals
    refunds,            \* the refunds table of the database, in creation order
    refundCalls,        \* the processRefund calls in flight, each with its locals
    cancelCall          \* a cancelOrder call made directly, with its locals

routerFields == <<orderKeywords, billingKeywords, supportKeywords>>

coordinatorVars ==
    <<useLLMRouter, orderTable, pc, callMessage, callContext, routingDecision, invoked,
      toolCalls, handlerResponse, response, llmCall>>

serviceVars == <<store, sendError, lastCall, sends>>

toolVars == <<refunds, refundCalls, cancelCall>>

vars == <<routerFields, scorer, routeLog, coordinatorVars, serviceVars, toolVars>>

-----------------------------------------------------------------------------
(* Strings *)

UpperCase == "ABCDEFGHIJKLMNOPQRSTUVWXYZ"
LowerCase == "abcdefghijklmnopqrstuvwxyz"
Digits == "0123456789"

CharsOf(s) == { SubSeq(s, i, i) : i \in 1..Len(s) }

\* The characters the regular expression class \w matches.
WordChars == CharsOf(UpperCase) \cup CharsOf(LowerCase) \cup CharsOf(Digits) \cup {"_"}

\* The lower-case letter of each upper-case letter.
LowerOfUpper ==
    [c \in CharsOf(UpperCase) |->
        LET i == CHOOSE j \in 1..Len(UpperCase) : SubSeq(UpperCase, j, j) = c
        IN  SubSeq(LowerCase, i, i)]

lowerChar(c) == IF c \in DOMAIN LowerOfUpper THEN LowerOfUpper[c] ELSE c

RECURSIVE toLowerCase(_)
toLowerCase(s) ==
    IF Len(s) = 0 THEN ""
    ELSE IF Len(s) = 1 THEN lowerChar(s)
    ELSE LET half == Len(s) \div 2
         IN  toLowerCase(SubSeq(s, 1, half)) \o toLowerCase(SubSeq(s, half + 1, Len(s)))

\* String.prototype.includes: the keyword occurs at some position.
includes(message, keyword) ==
    \E i \in 1..(Len(message) - Len(keyword) + 1) :
        SubSeq(message, i, i + Len(keyword) - 1) = keyword

\* Is the character at position j a word character (positions outside the
\* string are not).
isWordAt(s, j) == j \in 1..Len(s) /\ SubSeq(s, j, j) \in WordChars

\* The assertion \b just before position p (p = Len(s) + 1 is the end).
wordBoundary(s, p) == isWordAt(s, p - 1) # isWordAt(s, p)

\* new RegExp(`\\b${keyword}\\b`, 'i').test(message), for a keyword without
\* regular-expression metacharacters: some occurrence of the keyword, letter
\* case ignored, with a word boundary on either side.
wordPatternTest(message, keyword) ==
    LET messageFolded == toLowerCase(message)
        keywordFolded == toLowerCase(keyword)
    IN  \E i \in 1..(Len(message) - Len(keyword) + 1) :
            /\ wordBoundary(message, i)
            /\ wordBoundary(message, i + Len(keyword))
            /\ SubSeq(messageFolded, i, i + Len(keyword) - 1) = keywordFolded

-----------------------------------------------------------------------------
(* Keyword scorer *)

SubstringScore == 20
WordBonus == 10
MaxScore == 100

Min(a, b) == IF a <= b THEN a ELSE b

\* A plausible slip: the whole-word bonus is left out.
scoreStepNoBonus(score, message, keyword) ==
    IF includes(message, keyword) THEN score + SubstringScore ELSE score

\* The body of the for loop: the score after looking at one keyword.
scoreStep(score, message, keyword) ==
    IF includes(message, keyword)
    THEN IF wordPatternTest(message, keyword)
         THEN score + SubstringScore + WordBonus
         ELSE score + SubstringScore
    ELSE score

\* The loop over keywords[1..n], starting from score 0.
RECURSIVE scoreLoop(_, _, _)
scoreLoop(message, keywords, n) ==
    IF n = 0 THEN 0
    ELSE scoreStep(scoreLoop(message, keywords, n - 1), message, keywords[n])

\* A plausible slip: the total is not clamped.
calculateScoreUnclamped(message, keywords) ==
    scoreLoop(message, keywords, Len(keywords))

calculateScore(message, keywords) ==
    Min(scoreLoop(message, keywords, Len(keywords)), MaxScore)

-----------------------------------------------------------------------------
(* Router configuration: the keyword lists RouterAgentImpl is constructed with *)

OrderKeywordList ==
    << "order", "tracking", "shipped", "delivery", "cancel", "modify",
       "order number", "ord-", "where is my", "when will", "arrival",
       "shipping", "delivery status", "track my" >>

BillingKeywordList ==
    << "payment", "refund", "invoice", "charge", "bill", "money",
       "subscription", "credit card", "pay", "transaction", "price",
       "invoice", "receipt", "cost", "fee" >>

SupportKeywordList ==
    << "help", "question", "problem", "issue", "faq", "how to",
       "support", "account", "login", "password", "reset",
       "return", "exchange", "warranty", "product" >>

-----------------------------------------------------------------------------
(* Keyword router *)

ContinuityThreshold == 10
ContinuityConfidence == 90
FallbackThreshold == 20
FallbackConfidence == 50
ConfidenceCap == 95

\* route's optional context argument left out by the caller.
NoContext == [present |-> FALSE]

\* A plausible slip: continuity asks for more than one substring match.
isRelatedToAgentStrict(message, agentType) ==
    LET messageLower == toLowerCase(message)
    IN  CASE agentType = "ORDER" ->
                calculateScore(messageLower, orderKeywords) > FallbackThreshold
          [] agentType = "BILLING" ->
                calculateScore(messageLower, billingKeywords) > FallbackThreshold
          [] agentType = "SUPPORT" ->
                calculateScore(messageLower, supportKeywords) > FallbackThreshold
          [] OTHER -> FALSE

isRelatedToAgent(message, agentType) ==
    LET messageLower == toLowerCase(message)
    IN  CASE agentType = "ORDER" ->
                calculateScore(messageLower, orderKeywords) > ContinuityThreshold
          [] agentType = "BILLING" ->
                calculateScore(messageLower, billingKeywords) > ContinuityThreshold
          [] agentType = "SUPPORT" ->
                calculateScore(messageLower, supportKeywords) > ContinuityThreshold
          [] OTHER -> FALSE

\* Array.prototype.sort with the comparator (a, b) => b.score - a.score: a
\* stable sort by descending score. insertByScore puts x after every element
\* whose score is at least x's.
\* A plausible slip: an unstable sort that puts a later equal score first.
RECURSIVE insertByScoreUnstable(_, _)
insertByScoreUnstable(sorted, x) ==
    IF Len(sorted) = 0 THEN << x >>
    ELSE IF Head(sorted).score > x.score
         THEN << Head(sorted) >> \o insertByScoreUnstable(Tail(sorted), x)
         ELSE << x >> \o sorted

RECURSIVE insertByScore(_, _)
insertByScore(sorted, x) ==
    IF Len(sorted) = 0 THEN << x >>
    ELSE IF Head(sorted).score >= x.score
         THEN << Head(sorted) >> \o insertByScore(Tail(sorted), x)
         ELSE << x >> \o sorted

RECURSIVE sortScores(_, _)
sortScores(scores, n) ==
    IF n = 0 THEN << >>
    ELSE insertByScore(sortScores(scores, n - 1), scores[n])

\* The value of a JavaScript expression that is undefined.
Undefined == "undefined"

\* Truthiness of a string-or-undefined value.
truthy(v) == v # Undefined /\ v # ""

\* A plausible slip: the router keeps the category of its previous decision and
\* reads that instead of the context it is handed.
contextAgentTypeRemembered(context) ==
    IF Len(routeLog) > 0
    THEN routeLog[Len(routeLog)].decision.agentType
    ELSE IF context.present THEN context.agentType ELSE Undefined

\* context?.agentType
contextAgentType(context) ==
    IF context.present THEN context.agentType ELSE Undefined

continuityDecision(agentType) ==
    [agentType |-> agentType,
     confidence |-> ContinuityConfidence,
     reasoning |-> "Continuing with same agent based on conversation context"]

\* A plausible slip: the fallback keeps the category that sorted first.
lowConfidenceDecisionKeepsBest(best) ==
    [agentType |-> best.type,
     confidence |-> FallbackConfidence,
     reasoning |-> "Low confidence - using support agent as fallback"]

lowConfidenceDecision(best) ==
    [agentType |-> "SUPPORT",
     confidence |-> FallbackConfidence,
     reasoning |-> "Low confidence - using support agent as fallback"]

\* A plausible slip: the confidence is the raw score.
matchedDecisionUncapped(best) ==
    [agentType |-> best.type,
     confidence |-> best.score,
     reasoning |-> "Matched " \o best.type \o " keywords in message"]

matchedDecision(best) ==
    [agentType |-> best.type,
     confidence |-> Min(best.score, ConfidenceCap),
     reasoning |-> "Matched " \o best.type \o " keywords in message"]

route(message, context) ==
    LET messageLower == toLowerCase(message)
        agentType == contextAgentType(context)
    IN  IF /\ truthy(agentType)
           /\ agentType # "ROUTER"
           /\ isRelatedToAgent(message, agentType)
        THEN continuityDecision(agentType)
        ELSE LET orderScore == calculateScore(messageLower, orderKeywords)
                 billingScore == calculateScore(messageLower, billingKeywords)
                 supportScore == calculateScore(messageLower, supportKeywords)
                 scores == << [type |-> "ORDER", score |-> orderScore],
                              [type |-> "BILLING", score |-> billingScore],
                              [type |-> "SUPPORT", score |-> supportScore] >>
                 best == sortScores(scores, Len(scores))[1]
             IN  IF best.score < FallbackThreshold
                 THEN lowConfidenceDecision(best)
                 ELSE matchedDecision(best)

-----------------------------------------------------------------------------
(* Regular expressions of the responders *)

\* A pattern p1.*p2.*...pn (literal parts in order, anything but a line break
\* between them) matches somewhere in text at or after position from.
RECURSIVE matchFrom(_, _, _)
matchFrom(text, parts, from) ==
    IF Len(parts) = 0 THEN TRUE
    ELSE \E i \in from..(Len(text) - Len(parts[1]) + 1) :
            /\ SubSeq(text, i, i + Len(parts[1]) - 1) = parts[1]
            /\ matchFrom(text, Tail(parts), i + Len(parts[1]))

\* /alt1|alt2|.../i.test(text): some alternative matches, letter case ignored.
regexTest(text, alternatives) ==
    LET folded == toLowerCase(text)
    IN  \E k \in DOMAIN alternatives : matchFrom(folded, alternatives[k], 1)

\* /^alt1|^alt2|.../i.test(text): text starts with some alternative.
regexTestAtStart(text, alternatives) ==
    LET folded == toLowerCase(text)
    IN  \E k \in DOMAIN alternatives :
            /\ Len(alternatives[k]) <= Len(folded)
            /\ SubSeq(folded, 1, Len(alternatives[k])) = alternatives[k]

isDigitAt(s, j) == j \in 1..Len(s) /\ SubSeq(s, j, j) \in CharsOf(Digits)

\* The end of the longest run of digits that starts at position from (from - 1
\* when there is none).
RECURSIVE digitsEnd(_, _)
digitsEnd(s, from) ==
    IF isDigitAt(s, from) THEN digitsEnd(s, from + 1) ELSE from - 1

\* message.match(/ORD-\d{3}/i): the text of the leftmost match, or Undefined.
matchOrderNumber(message) ==
    LET folded == toLowerCase(message)
        starts == { i \in 1..Len(message) :
                      /\ i + 6 <= Len(message)
                      /\ SubSeq(folded, i, i + 3) = "ord-"
                      /\ \A j \in (i + 4)..(i + 6) : isDigitAt(message, j) }
    IN  IF starts = {} THEN Undefined
        ELSE LET i == CHOOSE x \in starts : \A y \in starts : x <= y
             IN  SubSeq(message, i, i + 6)

\* message.match(/<prefix>\d+/i) for the prefixes "ref-" and "inv-": the text
\* of the leftmost match with all its digits, or Undefined.
matchPrefixedId(message, prefix) ==
    LET folded == toLowerCase(message)
        starts == { i \in 1..Len(message) :
                      /\ i + Len(prefix) <= Len(message)
                      /\ SubSeq(folded, i, i + Len(prefix) - 1) = prefix
                      /\ isDigitAt(message, i + Len(prefix)) }
    IN  IF starts = {} THEN Undefined
        ELSE LET i == CHOOSE x \in starts : \A y \in starts : x <= y
             IN  SubSeq(message, i, digitsEnd(message, i + Len(prefix)))

-----------------------------------------------------------------------------
(* The orders table and the order tools *)

\* enum OrderStatus
OrderStatuses ==
    {"PENDING", "CONFIRMED", "PROCESSING", "SHIPPED", "DELIVERED", "CANCELLED", "REFUNDED"}

\* The order numbers the table may hold rows for.
OrderNumbers == {"ORD-001", "ORD-002"}

\* No row under an order number.
NoOrder == [exists |-> FALSE]

\* prisma.order.findUnique({ where: { orderNumber } }): the row, or NoOrder.
findOrder(table, orderNumber) ==
    IF orderNumber \in DOMAIN table THEN table[orderNumber] ELSE NoOrder

trackOrder(table, orderNumber, dbFails) ==
    LET order == findOrder(table, orderNumber)
    IN  IF dbFails
        THEN [success |-> FALSE, trackingNumber |-> Undefined, trackingUrl |-> Undefined,
              status |-> Undefined, error |-> "Failed to track order"]
        ELSE IF ~order.exists
        THEN [success |-> FALSE, trackingNumber |-> Undefined, trackingUrl |-> Undefined,
              status |-> Undefined, error |-> "Order " \o orderNumber \o " not found"]
        ELSE IF ~truthy(order.trackingNumber)
        THEN [success |-> FALSE, trackingNumber |-> Undefined, trackingUrl |-> Undefined,
              status |-> Undefined, error |-> "Tracking information not available"]
        ELSE [success |-> TRUE, trackingNumber |-> order.trackingNumber,
              trackingUrl |-> IF truthy(order.trackingUrl) THEN order.trackingUrl
                              ELSE Undefined,
              status |-> order.status, error |-> Undefined]

getOrderDetails(table, orderNumber, dbFails) ==
    LET order == findOrder(table, orderNumber)
    IN  IF dbFails
        THEN [success |-> FALSE, hasData |-> FALSE, data |-> NoOrder,
              error |-> "Failed to fetch order details"]
        ELSE IF ~order.exists
        THEN [success |-> FALSE, hasData |-> FALSE, data |-> NoOrder,
              error |-> "Order " \o orderNumber \o " not found"]
        ELSE [success |-> TRUE, hasData |-> TRUE, data |-> order, error |-> Undefined]

\* The rows of a user, most recently created first (createdAt is the rank of
\* the order number), as getUserOrders lists them; [] when the query fails.
getUserOrders(table, userId, dbFails) ==
    IF dbFails THEN << >>
    ELSE LET mine(n) == table[n].exists /\ table[n].userId = userId
         IN  (IF mine("ORD-002") THEN << "ORD-002" >> ELSE << >>)
             \o (IF mine("ORD-001") THEN << "ORD-001" >> ELSE << >>)

\* A plausible slip: an order being processed can be cancelled as well.
cancellableStatusesProcessing == {"PENDING", "CONFIRMED", "PROCESSING"}

cancellableStatuses == {"PENDING", "CONFIRMED"}

\* A plausible slip: the catch block of cancelOrder returns a result without a
\* message.
cancelOrderNoMessage(table, orderNumber, dbFails) ==
    LET order == findOrder(table, orderNumber)
    IN  IF dbFails
        THEN [result |-> [success |-> FALSE, status |-> "PENDING", message |-> Undefined],
              table |-> table]
        ELSE IF ~order.exists
        THEN [result |-> [success |-> FALSE, status |-> "PENDING",
                          message |-> "Order " \o orderNumber \o " not found"],
              table |-> table]
        ELSE IF order.status \notin cancellableStatuses
        THEN [result |-> [success |-> FALSE, status |-> order.status,
                          message |-> "Order cannot be cancelled. Current status: "
                                        \o order.status],
              table |-> table]
        ELSE [result |-> [success |-> TRUE, status |-> "CANCELLED",
                          message |-> IF order.paid > 0
                                      THEN "Order cancelled. Refund of $" \o ToString(order.paid)
                                             \o " will be processed within 5-7 business days."
                                      ELSE "Order cancelled successfully."],
              table |-> [table EXCEPT ![orderNumber].status = "CANCELLED"]]

\* cancelOrder: the result and the table afterwards.
cancelOrder(table, orderNumber, dbFails) ==
    LET order == findOrder(table, orderNumber)
    IN  IF dbFails
        THEN [result |-> [success |-> FALSE, status |-> "PENDING",
                          message |-> "Failed to cancel order"],
              table |-> table]
        ELSE IF ~order.exists
        THEN [result |-> [success |-> FALSE, status |-> "PENDING",
                          message |-> "Order " \o orderNumber \o " not found"],
              table |-> table]
        ELSE IF order.status \notin cancellableStatuses
        THEN [result |-> [success |-> FALSE, status |-> order.status,
                          message |-> "Order cannot be cancelled. Current status: "
                                        \o order.status],
              table |-> table]
        ELSE [result |-> [success |-> TRUE, status |-> "CANCELLED",
                          message |-> IF order.paid > 0
                                      THEN "Order cancelled. Refund of $" \o ToString(order.paid)
                                             \o " will be processed within 5-7 business days."
                                      ELSE "Order cancelled successfully."],
              table |-> [table EXCEPT ![orderNumber].status = "CANCELLED"]]

\* modifyOrder with the modifications parseModifications can produce: a
\* shippingAddress note or nothing.
modifyOrder(table, orderNumber, changesAddress, dbFails) ==
    LET order == findOrder(table, orderNumber)
    IN  IF dbFails
        THEN [result |-> [success |-> FALSE, message |-> "Failed to modify order"],
              table |-> table]
        ELSE IF ~order.exists
        THEN [result |-> [success |-> FALSE,
                          message |-> "Order " \o orderNumber \o " not found"],
              table |-> table]
        ELSE IF ~changesAddress
        THEN [result |-> [success |-> FALSE, message |-> "No valid modifications provided"],
              table |-> table]
        ELSE [result |-> [success |-> TRUE, message |-> "Order modified successfully"],
              table |-> [table EXCEPT ![orderNumber].shippingAddress =
                            "Address change requested - user needs to provide new address"]]

-----------------------------------------------------------------------------
(* Order responder *)

isTrackingRequest(message) ==
    regexTest(message, << <<"track">>, <<"tracking">>, <<"where", "is", "my">>,
                          <<"delivery status">>, <<"shipped">> >>)

isStatusRequest(message) ==
    regexTest(message, << <<"status">>, <<"order", "detail">>, <<"what", "order">>,
                          <<"check", "order">> >>)

isCancellationRequest(message) ==
    regexTest(message, << <<"cancel">>, <<"stop", "order">>, <<"don't", "want">>,
                          <<"changed", "mind">> >>)

isModificationRequest(message) ==
    regexTest(message, << <<"change", "address">>, <<"modify", "order">>,
                          <<"update", "order">>, <<"add", "item">>, <<"remove", "item">> >>)

extractCancellationReason(message) ==
    IF regexTest(message, << <<"changed", "mind">> >>) THEN "Customer changed their mind"
    ELSE IF regexTest(message, << <<"found", "better", "price">> >>)
         THEN "Found better price elsewhere"
    ELSE IF regexTest(message, << <<"no", "longer", "need">> >>) THEN "No longer need the item"
    ELSE IF regexTest(message, << <<"wrong", "item">> >>) THEN "Ordered wrong item"
    ELSE "Customer requested cancellation"

\* parseModifications: does the result carry a shippingAddress (its only key).
parseModifications(message) ==
    regexTest(message, << <<"change", "address">>, <<"update", "address">>,
                          <<"new", "address">> >>)

\* The list of a user's orders in the default reply.
RECURSIVE orderListText(_, _)
orderListText(table, numbers) ==
    IF Len(numbers) = 0 THEN ""
    ELSE "* " \o numbers[1] \o " - " \o table[numbers[1]].status
           \o (IF Len(numbers) = 1 THEN "" ELSE "\n" \o orderListText(table, Tail(numbers)))

\* What a tool function reported: "success" or "failure" for a result object
\* with a success flag, "list" for a bare array, and the error or message text
\* of the result (Undefined when it has none).
reported(success) == IF success THEN "success" ELSE "failure"

\* One tool call: the function called, its first argument and what it reported.
toolCall(name, argument, outcome, text) ==
    [name |-> name, argument |-> argument, outcome |-> outcome, text |-> text]

\* What a responder hands back: the AgentResponse, the orders table after its
\* tool calls, and the tool calls it made, in order.
handled(content, agentType, reasoning, table, calls) ==
    [response |-> [content |-> content, agentType |-> agentType, reasoning |-> reasoning],
     table |-> table,
     calls |-> calls]

\* A plausible slip: the order number is taken from the message only.
orderNumberOfMessageOnly(message, context) ==
    matchOrderNumber(message)

\* orderNumberMatch ? orderNumberMatch[0] : contextData.lastOrderNumber
orderNumberOf(message, context) ==
    LET orderNumberMatch == matchOrderNumber(message)
    IN  IF orderNumberMatch # Undefined THEN orderNumberMatch
        ELSE context.metadata.lastOrderNumber

\* A plausible slip: the cancellation test moved to the top of the chain.
orderIntentCancelFirst(messageLower) ==
    IF isCancellationRequest(messageLower) THEN "cancellation"
    ELSE IF isTrackingRequest(messageLower) THEN "tracking"
    ELSE IF isStatusRequest(messageLower) THEN "status"
    ELSE IF isModificationRequest(messageLower) THEN "modification"
    ELSE "list"

\* The chain of if statements of handle: the branch taken is that of the first
\* predicate that matches, "list" (the user's orders) when none does.
orderIntent(messageLower) ==
    IF isTrackingRequest(messageLower) THEN "tracking"
    ELSE IF isStatusRequest(messageLower) THEN "status"
    ELSE IF isCancellationRequest(messageLower) THEN "cancellation"
    ELSE IF isModificationRequest(messageLower) THEN "modification"
    ELSE "list"

\* A plausible slip: the fixed text is returned, the tool's error dropped.
failureTextFixed(error, fixed) == fixed

\* error || fixed
failureText(error, fixed) == IF truthy(error) THEN error ELSE fixed

\* OrderAgentImpl.handle. dbFails says whether the database query of the tool
\* call throws.
orderAgentHandle(message, context, table, dbFails) ==
    LET messageLower == toLowerCase(message)
        orderNumber == orderNumberOf(message, context)
        intent == orderIntent(messageLower)
    IN  IF intent = "tracking"
        THEN IF ~truthy(orderNumber)
             THEN handled("I'd be happy to help you track your order. Could you please provide your order number (e.g., ORD-001)?",
                          "ORDER", "Requesting order number for tracking", table, << >>)
             ELSE LET tracking == trackOrder(table, orderNumber, dbFails)
                      calls == << toolCall("trackOrder", orderNumber, reported(tracking.success),
                                          tracking.error) >>
                  IN  IF tracking.success /\ truthy(tracking.trackingNumber)
                      THEN handled("Your order " \o orderNumber \o " is " \o tracking.status
                                     \o ". Tracking number: " \o tracking.trackingNumber
                                     \o ". Track it here: " \o tracking.trackingUrl,
                                   "ORDER", "Provided tracking information", table, calls)
                      ELSE handled(failureText(tracking.error,
                                               "Unable to retrieve tracking information."),
                                   "ORDER", "Tracking information not available", table, calls)
        ELSE IF intent = "status"
        THEN IF ~truthy(orderNumber)
             THEN handled("I can check your order status. Please provide your order number (e.g., ORD-001).",
                          "ORDER", "Requesting order number for status check", table, << >>)
             ELSE LET orderDetails == getOrderDetails(table, orderNumber, dbFails)
                      calls == << toolCall("getOrderDetails", orderNumber,
                                          reported(orderDetails.success), orderDetails.error) >>
                  IN  IF orderDetails.success /\ orderDetails.hasData
                      THEN handled("Order " \o orderNumber \o " Status: "
                                     \o orderDetails.data.status,
                                   "ORDER", "Provided order details", table, calls)
                      ELSE handled(failureText(orderDetails.error,
                                               "Unable to retrieve order details."),
                                   "ORDER", "Order details not found", table, calls)
        ELSE IF intent = "cancellation"
        THEN IF ~truthy(orderNumber)
             THEN handled("I can help you cancel your order. Please provide your order number.",
                          "ORDER", "Requesting order number for cancellation", table, << >>)
             ELSE LET cancellation == cancelOrder(table, orderNumber, dbFails)
                  IN  handled(cancellation.result.message, "ORDER",
                              "Order " \o (IF cancellation.result.success THEN "cancelled"
                                           ELSE "cancellation failed"),
                              cancellation.table,
                              << toolCall("cancelOrder", orderNumber,
                                          reported(cancellation.result.success),
                                          cancellation.result.message) >>)
        ELSE IF intent = "modification"
        THEN IF ~truthy(orderNumber)
             THEN handled("I can help you modify your order. Please provide your order number first.",
                          "ORDER", "Requesting order number for modification", table, << >>)
             ELSE IF ~parseModifications(message)
             THEN handled("What would you like to modify about your order? You can change the shipping address or add/remove items.",
                          "ORDER", "Requesting modification details", table, << >>)
             ELSE LET modification ==
                          modifyOrder(table, orderNumber, parseModifications(message), dbFails)
                  IN  handled(modification.result.message, "ORDER",
                              "Modification " \o (IF modification.result.success THEN "completed"
                                                  ELSE "failed"),
                              modification.table,
                              << toolCall("modifyOrder", orderNumber,
                                          reported(modification.result.success),
                                          modification.result.message) >>)
        ELSE LET orders == getUserOrders(table, context.userId, dbFails)
                 calls == << toolCall("getUserOrders", context.userId, "list", Undefined) >>
             IN  IF Len(orders) = 0
                 THEN handled("I don't see any orders associated with your account. Have you placed an order recently?",
                              "ORDER", "No orders found for user", table, calls)
                 ELSE handled("Here are your recent orders:\n\n" \o orderListText(table, orders)
                                \o "\n\nWhich order would you like help with?",
                              "ORDER", "Listed user orders", table, calls)

-----------------------------------------------------------------------------
(* Billing responder *)

\* The billing and support tools query tables (refunds, invoices, payments,
\* conversations) and the FAQ list; their answers to one request are given by
\* a record `answers`:
\*   dbFails   the database query of a tool call throws
\*   refund    "found" or "missing": is there a row for the refund id asked for
\*   invoice   "found" or "missing": is there a row for the invoice id asked for
\*   payments  the user's payments, newest first, each [orderNumber, amount, status]
\*   history   the number of conversations queryConversationHistory returns

checkRefundStatus(answers, refundId) ==
    IF answers.dbFails
    THEN [success |-> FALSE, hasData |-> FALSE, error |-> "Failed to check refund status"]
    ELSE IF answers.refund = "missing"
    THEN [success |-> FALSE, hasData |-> FALSE, error |-> "Refund " \o refundId \o " not found"]
    ELSE [success |-> TRUE, hasData |-> TRUE, error |-> Undefined]

getInvoiceDetails(answers, invoiceId) ==
    IF answers.dbFails
    THEN [success |-> FALSE, hasData |-> FALSE, error |-> "Failed to fetch invoice details"]
    ELSE IF answers.invoice = "missing"
    THEN [success |-> FALSE, hasData |-> FALSE, error |-> "Invoice " \o invoiceId \o " not found"]
    ELSE [success |-> TRUE, hasData |-> TRUE, error |-> Undefined]

getPaymentHistory(answers, userId) ==
    IF answers.dbFails THEN << >> ELSE answers.payments

getSubscriptionInfo(answers, userId) ==
    IF answers.dbFails
    THEN [success |-> FALSE, hasSubscription |-> FALSE,
          error |-> "Failed to fetch subscription info"]
    ELSE [success |-> TRUE, error |-> Undefined,
          hasSubscription |-> \E k \in DOMAIN answers.payments :
                                  answers.payments[k].status = "COMPLETED"]

isRefundRequest(message) ==
    regexTest(message, << <<"refund">>, <<"money back">>, <<"get", "money">>,
                          <<"when", "refund">>, <<"refund", "status">> >>)

isInvoiceRequest(message) ==
    regexTest(message, << <<"invoice">>, <<"bill", "me">>, <<"receipt">>, <<"statement">>,
                          <<"download", "invoice">> >>)

isPaymentIssue(message) ==
    regexTest(message, << <<"payment", "fail">>, <<"card", "declined">>, <<"charge", "issue">>,
                          <<"won't", "charge">>, <<"payment", "problem">> >>)

isSubscriptionQuery(message) ==
    regexTest(message, << <<"subscription">>, <<"monthly">>, <<"annual", "plan">>,
                          <<"cancel", "subscription">>, <<"change", "plan">>,
                          <<"upgrade", "plan">> >>)

\* payments.filter(p => p.status === 'REFUNDED')
RECURSIVE refundedOf(_)
refundedOf(payments) ==
    IF Len(payments) = 0 THEN << >>
    ELSE (IF payments[1].status = "REFUNDED" THEN << payments[1] >> ELSE << >>)
           \o refundedOf(Tail(payments))

\* The lines of a payment list, at most `limit` of them.
RECURSIVE paymentListText(_, _)
paymentListText(payments, limit) ==
    IF Len(payments) = 0 \/ limit = 0 THEN ""
    ELSE "* " \o payments[1].orderNumber \o " - $" \o ToString(payments[1].amount)
           \o " - " \o payments[1].status
           \o (IF Len(payments) = 1 \/ limit = 1 THEN ""
               ELSE "\n" \o paymentListText(Tail(payments), limit - 1))

\* BillingAgentImpl.handle. The orders table is not touched.
billingAgentHandle(message, context, table, answers) ==
    LET messageLower == toLowerCase(message)
    IN  IF isRefundRequest(messageLower)
        THEN LET refundId == matchPrefixedId(message, "ref-")
                 refundStatus == checkRefundStatus(answers, refundId)
                 first == IF truthy(refundId)
                          THEN << toolCall("checkRefundStatus", refundId,
                                        reported(refundStatus.success), refundStatus.error) >> ELSE << >>
             IN  IF truthy(refundId) /\ refundStatus.success /\ refundStatus.hasData
                 THEN handled("Refund " \o refundId \o ":", "BILLING",
                              "Provided refund status", table, first)
                 ELSE LET payments == getPaymentHistory(answers, context.userId)
                          refundedPayments == refundedOf(payments)
                          calls == first \o << toolCall("getPaymentHistory", context.userId, "list", Undefined) >>
                      IN  IF Len(refundedPayments) = 0
                          THEN handled("I don't see any refunds associated with your account. Would you like to request a refund for an order?",
                                       "BILLING", "No refunds found", table, calls)
                          ELSE handled("Here are your refunded payments:\n\n"
                                         \o paymentListText(refundedPayments, Len(refundedPayments)),
                                       "BILLING", "Listed refunded payments", table, calls)
        ELSE IF isInvoiceRequest(messageLower)
        THEN LET invoiceId == matchPrefixedId(message, "inv-")
                 invoice == getInvoiceDetails(answers, invoiceId)
                 first == IF truthy(invoiceId)
                          THEN << toolCall("getInvoiceDetails", invoiceId,
                                        reported(invoice.success), invoice.error) >> ELSE << >>
             IN  IF truthy(invoiceId) /\ invoice.success /\ invoice.hasData
                 THEN handled("Invoice " \o invoiceId \o ":", "BILLING",
                              "Provided invoice details", table, first)
                 ELSE LET payments == getPaymentHistory(answers, context.userId)
                      IN  handled("Your recent payment history:\n\n"
                                    \o paymentListText(payments, 5)
                                    \o "\n\nWould you like more details on any specific payment?",
                                  "BILLING", "Listed payment history", table,
                                  first \o << toolCall("getPaymentHistory", context.userId, "list", Undefined) >>)
        ELSE IF isPaymentIssue(messageLower)
        THEN handled("I'm sorry to hear you're experiencing a payment issue. Here are some common solutions:",
                     "BILLING", "Provided payment issue solutions", table, << >>)
        ELSE IF isSubscriptionQuery(messageLower)
        THEN LET subscription == getSubscriptionInfo(answers, context.userId)
                 calls == << toolCall("getSubscriptionInfo", context.userId,
                                     reported(subscription.success), subscription.error) >>
             IN  IF subscription.success
                 THEN IF subscription.hasSubscription
                      THEN handled("Your Subscription:\nPlan: Premium\nStatus: active",
                                   "BILLING", "Provided subscription info", table, calls)
                      ELSE handled("I don't see an active subscription on your account. Would you like to learn about our subscription plans?",
                                   "BILLING", "No subscription found", table, calls)
                 ELSE handled("I couldn't retrieve your subscription information. Please try again later.",
                              "BILLING", "Failed to retrieve subscription", table, calls)
        ELSE LET payments == getPaymentHistory(answers, context.userId)
                 calls == << toolCall("getPaymentHistory", context.userId, "list", Undefined) >>
             IN  IF Len(payments) = 0
                 THEN handled("I don't see any payment history for your account. Have you made any purchases?",
                              "BILLING", "No payment history found", table, calls)
                 ELSE handled("Your payment history:\n\n" \o paymentListText(payments, 10)
                                \o "\n\nHow can I help you with billing?",
                              "BILLING", "Listed payment history", table, calls)

-----------------------------------------------------------------------------
(* Support responder *)

\* faqData: the FAQ list the support tools search.
FaqData ==
    << [category |-> "General", question |-> "How do I track my order?",
        answer |-> "You can track your order by logging into your account and visiting the \"Orders\" section. Each order will show its current status and tracking number if available."],
       [category |-> "General", question |-> "What is your return policy?",
        answer |-> "We offer a 30-day return policy for most items. Items must be in their original condition with tags attached. Some items like personalized products cannot be returned."],
       [category |-> "General", question |-> "How can I contact customer support?",
        answer |-> "You can reach our customer support team via email at support@example.com, through live chat on our website, or by calling 1-800-EXAMPLE between 9 AM and 6 PM EST."],
       [category |-> "Orders", question |-> "How do I cancel my order?",
        answer |-> "Orders can only be cancelled before they are shipped. Go to your order history, find the order you want to cancel, and click the \"Cancel Order\" button. If the order has already shipped, you'll need to initiate a return instead."],
       [category |-> "Orders", question |-> "Can I modify my order after placing it?",
        answer |-> "You can modify your order (like shipping address or item quantities) only before it begins processing. Once processing starts, modifications are not possible."],
       [category |-> "Billing", question |-> "What payment methods do you accept?",
        answer |-> "We accept major credit cards (Visa, MasterCard, American Express), PayPal, Apple Pay, and Google Pay. We also offer buy-now-pay-later options through Klarna and Afterpay."],
       [category |-> "Billing", question |-> "How do I get a refund?",
        answer |-> "Refunds are processed to the original payment method within 5-7 business days after we receive and inspect the returned item. You'll receive an email confirmation once the refund is processed."],
       [category |-> "Billing", question |-> "Why was my payment declined?",
        answer |-> "Payment declines can happen for various reasons: incorrect card information, insufficient funds, or your bank's fraud protection. Please check your card details or try a different payment method."] >>

\* faq.question.toLowerCase() + ' ' + faq.answer.toLowerCase(), for the first
\* n FAQs.
RECURSIVE faqTextsUpTo(_)
faqTextsUpTo(n) ==
    IF n = 0 THEN << >>
    ELSE Append(faqTextsUpTo(n - 1),
                toLowerCase(FaqData[n].question) \o " " \o toLowerCase(FaqData[n].answer))

FaqTexts == faqTextsUpTo(Len(FaqData))

\* query.split(/\s+/): the pieces between runs of spaces (an empty piece
\* before a leading and after a trailing run, [""] for the empty string).
RECURSIVE splitWords(_)
splitWords(s) ==
    LET spaces == { i \in 1..Len(s) : SubSeq(s, i, i) = " " }
    IN  IF spaces = {} THEN << s >>
        ELSE LET first == CHOOSE i \in spaces : \A j \in spaces : i <= j
                 after == CHOOSE k \in (first + 1)..(Len(s) + 1) :
                              /\ k \notin spaces
                              /\ \A j \in (first + 1)..(k - 1) : j \in spaces
             IN  << SubSeq(s, 1, first - 1) >> \o splitWords(SubSeq(s, after, Len(s)))

\* The relevance of a text for a query, in halves: 1 for every query word the
\* text includes, 0.5 more when the text starts with it.
RelevanceOfWord == 2
RelevanceOfStart == 1

\* What one query word adds to the relevance of a text.
wordRelevance(text, queryWord) ==
    IF includes(text, queryWord)
    THEN RelevanceOfWord
           + (IF SubSeq(text, 1, Len(queryWord)) = queryWord THEN RelevanceOfStart ELSE 0)
    ELSE 0

\* wordRelevance of the FAQ texts for the words of everyday requests, worked
\* out once: TabulatedRelevance[k][i] for word k and FAQ text i. wordRelevance
\* is evaluated directly for any other word or text.
TabulatedWords ==
    << "", "a", "i", "my", "track", "order", "orders", "ord-", "ord-001", "ord-002",
       "ord-009", "cancel", "change", "address", "want", "refund", "ref-7", "invoice",
       "inv-3", "payment", "status", "delivery", "hello", "help", "subscription",
       "history", "exchange", "password", "talk", "human", "size", "zzz" >>

RECURSIVE tabulateTexts(_, _)
tabulateTexts(queryWord, n) ==
    IF n = 0 THEN << >>
    ELSE Append(tabulateTexts(queryWord, n - 1), wordRelevance(FaqTexts[n], queryWord))

RECURSIVE tabulateWords(_)
tabulateWords(k) ==
    IF k = 0 THEN << >>
    ELSE Append(tabulateWords(k - 1), tabulateTexts(TabulatedWords[k], Len(FaqTexts)))

TabulatedRelevance == tabulateWords(Len(TabulatedWords))

indexIn(seq, x) ==
    IF \E k \in DOMAIN seq : seq[k] = x THEN CHOOSE k \in DOMAIN seq : seq[k] = x ELSE 0

RECURSIVE relevanceLoop(_, _, _)
relevanceLoop(queryWords, text, n) ==
    IF n = 0 THEN 0
    ELSE LET k == indexIn(TabulatedWords, queryWords[n])
             i == indexIn(FaqTexts, text)
         IN  relevanceLoop(queryWords, text, n - 1)
               + (IF k > 0 /\ i > 0 THEN TabulatedRelevance[k][i]
                  ELSE wordRelevance(text, queryWords[n]))

calculateRelevance(query, text) ==
    LET queryWords == splitWords(query)
    IN  relevanceLoop(queryWords, text, Len(queryWords))

\* The number of FAQs searchFAQs returns at most.
FaqLimit == 5

\* A plausible slip: the FAQs of positive relevance are cut to FaqLimit in
\* the order of the data, the sort left out.
searchFAQsUnsorted(query) ==
    LET queryLower == toLowerCase(query)
        results == [i \in DOMAIN FaqData |->
                      [faq |-> i, score |-> calculateRelevance(queryLower, FaqTexts[i])]]
        relevant == SelectSeq(results, LAMBDA r : r.score > 0)
    IN  [k \in 1..Min(FaqLimit, Len(relevant)) |->
            [category |-> FaqData[relevant[k].faq].category,
             question |-> FaqData[relevant[k].faq].question,
             answer |-> FaqData[relevant[k].faq].answer,
             relevance |-> relevant[k].score]]

\* supportTools.searchFAQs: the FAQs of positive relevance, most relevant
\* first (the sort is stable), the first FaqLimit of them.
searchFAQs(query) ==
    LET queryLower == toLowerCase(query)
        results == [i \in DOMAIN FaqData |->
                      [faq |-> i, score |-> calculateRelevance(queryLower, FaqTexts[i])]]
        relevant == SelectSeq(results, LAMBDA r : r.score > 0)
        sorted == sortScores(relevant, Len(relevant))
    IN  [k \in 1..Min(FaqLimit, Len(sorted)) |->
            [category |-> FaqData[sorted[k].faq].category,
             question |-> FaqData[sorted[k].faq].question,
             answer |-> FaqData[sorted[k].faq].answer,
             relevance |-> sorted[k].score]]

queryConversationHistory(answers, userId, limit) ==
    IF answers.dbFails
    THEN [success |-> FALSE, conversations |-> 0,
          error |-> "Failed to query conversation history"]
    ELSE [success |-> TRUE, conversations |-> Min(answers.history, limit), error |-> Undefined]

isGreeting(message) ==
    regexTestAtStart(message, << "hi", "hello", "hey", "good morning", "good afternoon",
                                 "good evening", "what's up" >>)

isReturnRequest(message) ==
    regexTest(message, << <<"return">>, <<"exchange">>, <<"send", "back">>,
                          <<"get", "money", "back">>, <<"not", "satisfied">> >>)

isAccountIssue(message) ==
    regexTest(message, << <<"password">>, <<"login">>, <<"can't", "access">>,
                          <<"locked", "out">>, <<"account", "issue">>, <<"security">>,
                          <<"2fa">> >>)

isContactRequest(message) ==
    regexTest(message, << <<"talk", "human">>, <<"speak", "agent">>, <<"call", "you">>,
                          <<"email", "support">>, <<"contact">>, <<"phone", "number">> >>)

isProductQuestion(message) ==
    regexTest(message, << <<"product">>, <<"specification">>, <<"feature">>, <<"size">>,
                          <<"color">>, <<"dimension">>, <<"weight">>, <<"compatibility">> >>)

\* A plausible slip: the conversation history is fetched next to the FAQ
\* search, before the greeting check.
supportAgentHandleHistoryFirst(message, context, table, answers) ==
    LET messageLower == toLowerCase(message)
        faqs == searchFAQs(message)
        search == << toolCall("searchFAQs", message, "list", Undefined) >>
        early == queryConversationHistory(answers, context.userId, 5)
        both == search \o << toolCall("queryConversationHistory", context.userId,
                                      reported(early.success), early.error) >>
    IN  IF isGreeting(messageLower)
        THEN handled("Hello! Welcome to our customer support. How can I help you today?",
                     "SUPPORT", "Provided greeting and help options", table, both)
        ELSE IF Len(faqs) > 0
        THEN handled("**" \o faqs[1].question \o "**\n\n" \o faqs[1].answer
                       \o "\n\n*Category: " \o faqs[1].category
                       \o "*\n\nIs this helpful, or would you like more assistance?",
                     "SUPPORT", "Matched FAQ: " \o faqs[1].category, table, search)
        ELSE LET history == queryConversationHistory(answers, context.userId, 5)
                 calls == search \o << toolCall("queryConversationHistory", context.userId,
                                                reported(history.success), history.error) >>
             IN  IF isReturnRequest(messageLower)
                 THEN handled("**Return Policy**", "SUPPORT",
                              "Provided return policy information", table, calls)
                 ELSE IF isAccountIssue(messageLower)
                 THEN handled("**Account Assistance**", "SUPPORT",
                              "Provided account assistance options", table, calls)
                 ELSE IF isContactRequest(messageLower)
                 THEN handled("**Contact Us**", "SUPPORT",
                              "Provided contact information", table, calls)
                 ELSE IF isProductQuestion(messageLower)
                 THEN handled("**Product Questions**", "SUPPORT",
                              "Provided product question guidance", table, calls)
                 ELSE handled("**I want to make sure I understand your question**\n\nYour message: \""
                                \o message \o "\""
                                \o (IF history.success /\ history.conversations > 0
                                    THEN "\n\n*Based on our conversation history, I see you've asked about "
                                           \o ToString(history.conversations) \o " topics before.*"
                                    ELSE ""),
                              "SUPPORT", "Provided general assistance options", table, calls)

\* SupportAgentImpl.handle. The orders table is not touched.
supportAgentHandle(message, context, table, answers) ==
    LET messageLower == toLowerCase(message)
        faqs == searchFAQs(message)
        search == << toolCall("searchFAQs", message, "list", Undefined) >>
    IN  IF isGreeting(messageLower)
        THEN handled("Hello! Welcome to our customer support. How can I help you today?",
                     "SUPPORT", "Provided greeting and help options", table, search)
        ELSE IF Len(faqs) > 0
        THEN handled("**" \o faqs[1].question \o "**\n\n" \o faqs[1].answer
                       \o "\n\n*Category: " \o faqs[1].category
                       \o "*\n\nIs this helpful, or would you like more assistance?",
                     "SUPPORT", "Matched FAQ: " \o faqs[1].category, table, search)
        ELSE LET history == queryConversationHistory(answers, context.userId, 5)
                 calls == search \o << toolCall("queryConversationHistory", context.userId,
                                                reported(history.success), history.error) >>
             IN  IF isReturnRequest(messageLower)
                 THEN handled("**Return Policy**", "SUPPORT",
                              "Provided return policy information", table, calls)
                 ELSE IF isAccountIssue(messageLower)
                 THEN handled("**Account Assistance**", "SUPPORT",
                              "Provided account assistance options", table, calls)
                 ELSE IF isContactRequest(messageLower)
                 THEN handled("**Contact Us**", "SUPPORT",
                              "Provided contact information", table, calls)
                 ELSE IF isProductQuestion(messageLower)
                 THEN handled("**Product Questions**", "SUPPORT",
                              "Provided product question guidance", table, calls)
                 ELSE handled("**I want to make sure I understand your question**\n\nYour message: \""
                                \o message \o "\""
                                \o (IF history.success /\ history.conversations > 0
                                    THEN "\n\n*Based on our conversation history, I see you've asked about "
                                           \o ToString(history.conversations) \o " topics before.*"
                                    ELSE ""),
                              "SUPPORT", "Provided general assistance options", table, calls)

-----------------------------------------------------------------------------
(* LLM router *)

\* A number that is undefined (a confidence the reply does not carry).
UndefinedNumber == -1

\* A plausible slip: the members are read with optional chaining
\* (result?.agentType), so a reply that parses to null no longer throws.
llmRouteOptionalChaining(reply) ==
    IF reply.kind \in {"callFails", "notJSON"}
    THEN [agentType |-> "SUPPORT",
          confidence |-> FallbackConfidence,
          reasoning |-> "LLM routing failed, using fallback"]
    ELSE IF reply.kind = "null"
    THEN [agentType |-> Undefined, confidence |-> UndefinedNumber, reasoning |-> Undefined]
    ELSE [agentType |-> reply.agentType,
          confidence |-> reply.confidence,
          reasoning |-> reply.reasoning]

\* LLMRouterAgentImpl.route, given what the text-generation call did:
\*   kind "callFails"  generateText rejects
\*   kind "notJSON"    the reply, fences stripped, does not parse
\*   kind "null"       the reply parses to null, reading result.agentType throws
\*   kind "value"      the reply parses to a JSON value; agentType, confidence
\*                     and reasoning are its members of those names, Undefined
\*                     for a member it lacks
llmRoute(reply) ==
    IF reply.kind \in {"callFails", "notJSON", "null"}
    THEN [agentType |-> "SUPPORT",
          confidence |-> FallbackConfidence,
          reasoning |-> "LLM routing failed, using fallback"]
    ELSE [agentType |-> reply.agentType,
          confidence |-> reply.confidence,
          reasoning |-> reply.reasoning]

-----------------------------------------------------------------------------
(* Coordinator *)

\* The responder the switch over routingDecision.agentType picks.
responderFor(agentType) ==
    CASE agentType = "ORDER" -> "order"
      [] agentType = "BILLING" -> "billing"
      [] agentType = "SUPPORT" -> "support"
      [] OTHER -> "support"

\* A plausible slip: the responder is handed the caller's context as it came.
updatedContextStale(ctx, dec) == ctx

\* { ...context, agentType: routingDecision.agentType }
updatedContext(ctx, dec) ==
    [ctx EXCEPT !.agentType = dec.agentType]

\* A plausible slip: the routed category is assigned to the context passed in
\* (context.agentType = routingDecision.agentType) instead of to a copy.
callerContextAssigned(ctx, dec) ==
    [ctx EXCEPT !.agentType = dec.agentType]

\* The caller's context object once processMessage has returned: updatedContext
\* is a new object built by the spread, and neither it nor the argument is
\* assigned to afterwards.
callerContext(ctx, dec) == ctx

\* responder.handle(message, updatedContext) for the responder picked.
handle(responder, msg, ctx, table, answers) ==
    CASE responder = "order" -> orderAgentHandle(msg, ctx, table, answers.dbFails)
      [] responder = "billing" -> billingAgentHandle(msg, ctx, table, answers)
      [] responder = "support" -> supportAgentHandle(msg, ctx, table, answers)

\* A plausible slip: the decision's category is copied onto the response too.
finalResponseCopiesCategory(resp, dec) ==
    [resp EXCEPT !.reasoning = dec.reasoning, !.agentType = dec.agentType]

\* A plausible slip: the reasoning is copied only "if available", as the
\* comment above the assignment says.
finalResponseIfAvailable(resp, dec) ==
    IF truthy(dec.reasoning) THEN [resp EXCEPT !.reasoning = dec.reasoning] ELSE resp

\* response.reasoning = routingDecision.reasoning
finalResponse(resp, dec) ==
    [resp EXCEPT !.reasoning = dec.reasoning]

-----------------------------------------------------------------------------
(* Inputs *)

\* Messages are up to MaxWords phrases of Vocabulary joined by single spaces.
\* "orders" holds a keyword inside a longer word; "ord-" followed by a space
\* or by the end of the message holds the keyword 'ord-' with no word boundary
\* after it, "ORD-001" holds it with one.
MaxWords == 2

Vocabulary ==
    << "Track my order", "ORD-001", "orders", "cancel", "I want a refund",
       "payment", "invoice", "hello", "help", "delivery status", "ord-" >>

RECURSIVE joinWords(_, _)
joinWords(vocabulary, ws) ==
    IF Len(ws) = 0 THEN ""
    ELSE IF Len(ws) = 1 THEN vocabulary[ws[1]]
    ELSE vocabulary[ws[1]] \o " " \o joinWords(vocabulary, Tail(ws))

MessagesOver(vocabulary) ==
    { joinWords(vocabulary, ws) :
        ws \in UNION { [1..k -> 1..Len(vocabulary)] : k \in 0..MaxWords } }

\* The messages the keyword router is tried on.
Messages == MessagesOver(Vocabulary)

\* The messages calculateScore is tried on, against many more keyword lists:
\* the phrases that hold a keyword inside a word, as a whole word, before a
\* non-word character, several keywords at once, or none.
ScoreVocabulary ==
    << "Track my order", "ORD-001", "orders", "payment", "delivery status",
       "ord-", "hello" >>

ScoreMessages == MessagesOver(ScoreVocabulary)

\* The messages sent through the coordinator: phrases that reach the branches
\* of the three responders.
RequestVocabulary ==
    << "Track my order", "ORD-001", "cancel", "I want a refund", "hello" >>

Requests == MessagesOver(RequestVocabulary)

\* The orders tables a run may start from: an order of the caller that can
\* still be cancelled and a shipped order of another user. A row: its owner, its status, its
\* tracking number and URL (Undefined when it has none), the amount of its
\* completed payment (0 when it has none) and its shipping address.
orderRow(userId, status, trackingNumber, paid) ==
    [exists |-> TRUE, userId |-> userId, status |-> status,
     trackingNumber |-> trackingNumber, trackingUrl |-> Undefined,
     paid |-> paid, shippingAddress |-> "1 Main St"]

InitialTables ==
    << [n \in OrderNumbers |->
          IF n = "ORD-001" THEN orderRow("user-1", "PENDING", Undefined, 120)
          ELSE orderRow("user-2", "SHIPPED", "TRK-2", 80)] >>

\* The keyword lists calculateScore is tried on: the three configured lists and
\* every list of up to MaxListLen keywords of KeywordPool (repetitions included).
MaxListLen == 2

KeywordPool == << "order", "ord-", "pay", "payment" >>

KeywordLists ==
    {OrderKeywordList, BillingKeywordList, SupportKeywordList} \cup
    UNION { [1..k -> { KeywordPool[i] : i \in 1..Len(KeywordPool) }] : k \in 0..MaxListLen }

-----------------------------------------------------------------------------
(* Specification of the scorer alone: calculateScore applied to drawn inputs *)

\* No request in progress.
NoDecision == [agentType |-> Undefined, confidence |-> UndefinedNumber, reasoning |-> Undefined]
NoResponse == [content |-> Undefined, agentType |-> Undefined, reasoning |-> Undefined]
NoReply == [kind |-> "none"]

\* The context column of a conversation row when it is null.
NullContext == [null |-> TRUE]

\* No conversation row yet, no message rows, no sendMessage call made.
NoConversation ==
    [exists |-> FALSE, userId |-> Undefined, agentType |-> Undefined,
     context |-> NullContext, title |-> Undefined]

\* The two callers whose calls may be in flight side by side, and a caller
\* with no call in flight.
Callers == {"a", "b"}

IdleCall == [pc |-> "idle"]

\* The service and the tools as the program starts: no conversation, no
\* refund, no call in flight.
serviceConstructed ==
    /\ store = [conversation |-> NoConversation, messages |-> << >>]
    /\ sendError = Undefined
    /\ lastCall = IdleCall
    /\ sends = [i \in Callers |-> IdleCall]
    /\ refunds = << >>
    /\ refundCalls = [i \in Callers |-> IdleCall]
    /\ cancelCall = IdleCall

idleRequest ==
    /\ pc = "idle"
    /\ callMessage = ""
    /\ callContext = NoContext
    /\ routingDecision = NoDecision
    /\ invoked = << >>
    /\ toolCalls = << >>
    /\ handlerResponse = NoResponse
    /\ response = NoResponse
    /\ llmCall = NoReply

\* The router as constructed, nothing scored or routed yet.
routerConstructed ==
    /\ orderKeywords = OrderKeywordList
    /\ billingKeywords = BillingKeywordList
    /\ supportKeywords = SupportKeywordList
    /\ scorer = [pc |-> "idle", message |-> "", keywords |-> << >>, result |-> 0]
    /\ routeLog = << >>

\* The exported coordinator (useLLMRouter defaults to true) over the first
\* initial table, idle: the start of the specifications of the scorer and of
\* the keyword router, which the coordinator takes no part in.
InitRouter ==
    /\ routerConstructed
    /\ useLLMRouter = TRUE
    /\ orderTable = InitialTables[1]
    /\ idleRequest
    /\ serviceConstructed

\* calculateScore(message, keywords) is called with a lower-cased message and
\* returns.
Score(m, kws) ==
    /\ scorer.pc = "idle"
    /\ scorer' = [pc |-> "returned", message |-> m, keywords |-> kws,
                  result |-> calculateScore(m, kws)]
    /\ UNCHANGED <<routerFields, routeLog, coordinatorVars, serviceVars, toolVars>>

\* The caller drops the result; the scorer is ready for the next call.
ScoreDone ==
    /\ scorer.pc = "returned"
    /\ scorer' = [pc |-> "idle", message |-> "", keywords |-> << >>, result |-> 0]
    /\ UNCHANGED <<routerFields, routeLog, coordinatorVars, serviceVars, toolVars>>

NextScore ==
    \/ /\ scorer.pc = "idle"
       /\ \E m \in { toLowerCase(x) : x \in ScoreMessages }, kws \in KeywordLists :
             Score(m, kws)
    \/ ScoreDone

SpecScore == InitRouter /\ [][NextScore]_vars

-----------------------------------------------------------------------------
(* Specification of the keyword router alone: route called directly *)

\* enum AgentType
AgentTypes == {"ROUTER", "SUPPORT", "ORDER", "BILLING"}

\* What route reads of a ConversationContext is its agentType.
RouteContexts ==
    {NoContext} \cup { [present |-> TRUE, agentType |-> a] : a \in AgentTypes }

\* One call of route: its arguments and the decision it returned.
routeCall(m, c) == [message |-> m, context |-> c, decision |-> route(m, c)]

RouteDirect(m, c) ==
    /\ routeLog = << >>
    /\ routeLog' = << routeCall(m, c) >>
    /\ UNCHANGED <<routerFields, scorer, coordinatorVars, serviceVars, toolVars>>

RouteDone ==
    /\ Len(routeLog) = 1
    /\ routeLog' = << >>
    /\ UNCHANGED <<routerFields, scorer, coordinatorVars, serviceVars, toolVars>>

NextRoute ==
    \/ /\ routeLog = << >>
       /\ \E m \in Messages, c \in RouteContexts : RouteDirect(m, c)
    \/ RouteDone

SpecRoute == InitRouter /\ [][NextRoute]_vars

\* Repeated calls: up to MaxCalls calls of route in a row, on a few messages
\* that take each of route's paths.
MaxCalls == 3

RepeatMessages ==
    { "hello", "cancel I want a refund", "orders payment", "Track my order ORD-001" }

RepeatContexts ==
    { NoContext, [present |-> TRUE, agentType |-> "ORDER"],
      [present |-> TRUE, agentType |-> "BILLING"] }

RouteRepeat(m, c) ==
    /\ Len(routeLog) < MaxCalls
    /\ routeLog' = Append(routeLog, routeCall(m, c))
    /\ UNCHANGED <<routerFields, scorer, coordinatorVars, serviceVars, toolVars>>

NextRepeat ==
    \E m \in RepeatMessages, c \in RepeatContexts : RouteRepeat(m, c)

SpecRepeat == InitRouter /\ [][NextRepeat]_vars

-----------------------------------------------------------------------------
(* Specification of the coordinator: processMessage, one call at a time *)

\* The conversation contexts a caller passes: each category, and an ORDER
\* conversation whose metadata carries a lastOrderNumber.
contextOf(agentType, lastOrderNumber) ==
    [present |-> TRUE,
     conversationId |-> "conv-1",
     userId |-> "user-1",
     previousMessages |-> << >>,
     agentType |-> agentType,
     metadata |-> [lastOrderNumber |-> lastOrderNumber]]

Contexts ==
    { contextOf(a, Undefined) : a \in AgentTypes } \cup { contextOf("ORDER", "ORD-002") }

\* What the LLM may do with a request.
LLMReplies ==
    { [kind |-> "callFails"], [kind |-> "notJSON"], [kind |-> "null"],
      [kind |-> "value", agentType |-> Undefined, confidence |-> UndefinedNumber,
       reasoning |-> Undefined],
      [kind |-> "value", agentType |-> "ORDER", confidence |-> 80,
       reasoning |-> "The customer asks about an order"],
      [kind |-> "value", agentType |-> "BILLING", confidence |-> 80,
       reasoning |-> Undefined],
      [kind |-> "value", agentType |-> "ROUTER", confidence |-> 150,
       reasoning |-> "Unsure"],
      [kind |-> "value", agentType |-> "RETURNS", confidence |-> 80,
       reasoning |-> "The customer wants to send an item back"] }

\* What the tools' tables answer during one request.
ToolAnswers ==
    { [dbFails |-> FALSE, refund |-> "found", invoice |-> "found",
       payments |-> << [orderNumber |-> "ORD-002", amount |-> 80, status |-> "REFUNDED"],
                       [orderNumber |-> "ORD-001", amount |-> 120, status |-> "COMPLETED"] >>,
       history |-> 2],
      [dbFails |-> FALSE, refund |-> "missing", invoice |-> "missing",
       payments |-> << >>, history |-> 0],
      [dbFails |-> FALSE, refund |-> "missing", invoice |-> "found",
       payments |-> << [orderNumber |-> "ORD-001", amount |-> 120, status |-> "COMPLETED"] >>,
       history |-> 1],
      [dbFails |-> TRUE, refund |-> "found", invoice |-> "found",
       payments |-> << >>, history |-> 1] }

Init ==
    /\ routerConstructed
    /\ useLLMRouter \in BOOLEAN
    /\ orderTable \in { InitialTables[k] : k \in DOMAIN InitialTables }
    /\ idleRequest
    /\ serviceConstructed

\* A caller calls processMessage(m, c).
Call(m, c) ==
    /\ pc = "idle"
    /\ pc' = "routing"
    /\ callMessage' = m
    /\ callContext' = c
    /\ UNCHANGED <<routerFields, scorer, routeLog, serviceVars, toolVars, useLLMRouter, orderTable,
                   routingDecision, invoked,
                   toolCalls, handlerResponse, response, llmCall>>

\* await this.router.route(callMessage, callContext), the keyword router wired in.
KeywordRoute ==
    /\ pc = "routing"
    /\ ~useLLMRouter
    /\ routingDecision' = route(callMessage, callContext)
    /\ pc' = "dispatch"
    /\ UNCHANGED <<routerFields, scorer, routeLog, serviceVars, toolVars, useLLMRouter, orderTable,
                   callMessage, callContext,
                   invoked, toolCalls, handlerResponse, response, llmCall>>

\* await this.router.route(callMessage, callContext), the LLM router wired in.
LLMRoute(reply) ==
    /\ pc = "routing"
    /\ useLLMRouter
    /\ llmCall' = reply
    /\ routingDecision' = llmRoute(reply)
    /\ pc' = "dispatch"
    /\ UNCHANGED <<routerFields, scorer, routeLog, serviceVars, toolVars, useLLMRouter, orderTable,
                   callMessage, callContext,
                   invoked, toolCalls, handlerResponse, response>>

\* The rest of processMessage: the updated context, the switch, the responder's
\* handle with its tool calls, the reasoning copied over, the return.
Dispatch(answers) ==
    /\ pc = "dispatch"
    /\ LET ctx == updatedContext(callContext, routingDecision)
           responder == responderFor(routingDecision.agentType)
       IN  \E done \in { handle(responder, callMessage, ctx, orderTable, answers) } :
           /\ invoked' = Append(invoked, [responder |-> responder, context |-> ctx])
           /\ toolCalls' = toolCalls \o done.calls
           /\ orderTable' = done.table
           /\ handlerResponse' = done.response
           /\ response' = finalResponse(done.response, routingDecision)
    /\ callContext' = callerContext(callContext, routingDecision)
    /\ pc' = "done"
    /\ UNCHANGED <<routerFields, scorer, routeLog, serviceVars, toolVars, useLLMRouter, callMessage,
                   routingDecision, llmCall>>

\* The caller has the response; the coordinator is ready for the next call.
Return ==
    /\ pc = "done"
    /\ pc' = "idle"
    /\ callMessage' = ""
    /\ callContext' = NoContext
    /\ routingDecision' = NoDecision
    /\ invoked' = << >>
    /\ toolCalls' = << >>
    /\ handlerResponse' = NoResponse
    /\ response' = NoResponse
    /\ llmCall' = NoReply
    /\ UNCHANGED <<routerFields, scorer, routeLog, serviceVars, toolVars, useLLMRouter, orderTable>>

Next ==
    \/ /\ pc = "idle"
       /\ \E m \in Requests, c \in Contexts : Call(m, c)
    \/ KeywordRoute
    \/ \E reply \in LLMReplies : LLMRoute(reply)
    \/ \E answers \in ToolAnswers : Dispatch(answers)
    \/ Return

Spec == Init /\ [][Next]_vars

-----------------------------------------------------------------------------
(* Specification of the responders alone: handle called directly *)

\* The messages the order responder is tried on: a phrase for each of its four
\* predicates, the order number of the caller's order, that of another user's
\* order and one that is in no table.
OrderVocabulary ==
    << "Track my order", "status", "cancel", "change address", "ORD-001", "ORD-002",
       "ORD-009" >>

OrderRequests == MessagesOver(OrderVocabulary)

\* The contexts it is handed: metadata without a lastOrderNumber, and with the
\* number of the caller's order or of another user's.
OrderContexts ==
    { contextOf("ORDER", n) : n \in {Undefined, "ORD-001", "ORD-002"} }

\* The messages the billing responder is tried on: refund and invoice requests
\* with and without an identifier, a subscription query, anything else.
BillingVocabulary ==
    << "I want a refund", "REF-7", "invoice", "INV-3", "subscription" >>

BillingRequests == MessagesOver(BillingVocabulary)

\* The messages the support responder is tried on: a greeting, a word that
\* only starts like one, words of one, three and all FAQs, a word of each
\* later branch that no FAQ holds, and a word of none.
SupportVocabulary ==
    << "hello", "history", "cancel", "order", "a", "exchange", "password", "talk human",
       "size", "zzz" >>

SupportRequests == MessagesOver(SupportVocabulary)

\* supportAgent.handle(m, c) is called and returns.
HandleSupport(m, c, answers) ==
    /\ pc = "idle"
    /\ \E done \in { supportAgentHandle(m, c, orderTable, answers) } :
          /\ toolCalls' = done.calls
          /\ orderTable' = done.table
          /\ handlerResponse' = done.response
    /\ invoked' = << [responder |-> "support", context |-> c] >>
    /\ callMessage' = m
    /\ callContext' = c
    /\ pc' = "handled"
    /\ UNCHANGED <<routerFields, scorer, routeLog, serviceVars, toolVars, useLLMRouter, routingDecision,
                   response, llmCall>>

\* orderAgent.handle(m, c) is called and returns.
HandleOrder(m, c, dbFails) ==
    /\ pc = "idle"
    /\ \E done \in { orderAgentHandle(m, c, orderTable, dbFails) } :
          /\ toolCalls' = done.calls
          /\ orderTable' = done.table
          /\ handlerResponse' = done.response
    /\ invoked' = << [responder |-> "order", context |-> c] >>
    /\ callMessage' = m
    /\ callContext' = c
    /\ pc' = "handled"
    /\ UNCHANGED <<routerFields, scorer, routeLog, serviceVars, toolVars, useLLMRouter, routingDecision,
                   response, llmCall>>

\* billingAgent.handle(m, c) is called and returns.
HandleBilling(m, c, answers) ==
    /\ pc = "idle"
    /\ \E done \in { billingAgentHandle(m, c, orderTable, answers) } :
          /\ toolCalls' = done.calls
          /\ orderTable' = done.table
          /\ handlerResponse' = done.response
    /\ invoked' = << [responder |-> "billing", context |-> c] >>
    /\ callMessage' = m
    /\ callContext' = c
    /\ pc' = "handled"
    /\ UNCHANGED <<routerFields, scorer, routeLog, serviceVars, toolVars, useLLMRouter, routingDecision,
                   response, llmCall>>

\* The caller has the reply; the next request can come.
HandleDone ==
    /\ pc = "handled"
    /\ pc' = "idle"
    /\ callMessage' = ""
    /\ callContext' = NoContext
    /\ invoked' = << >>
    /\ toolCalls' = << >>
    /\ handlerResponse' = NoResponse
    /\ UNCHANGED <<routerFields, scorer, routeLog, serviceVars, toolVars, useLLMRouter, orderTable,
                   routingDecision, response, llmCall>>

NextHandle ==
    \/ /\ pc = "idle"
       /\ \E m \in OrderRequests, c \in OrderContexts, dbFails \in BOOLEAN :
             HandleOrder(m, c, dbFails)
    \/ /\ pc = "idle"
       /\ \E m \in BillingRequests, answers \in ToolAnswers :
             HandleBilling(m, contextOf("BILLING", Undefined), answers)
    \/ /\ pc = "idle"
       /\ \E m \in SupportRequests, answers \in ToolAnswers :
             HandleSupport(m, contextOf("SUPPORT", Undefined), answers)
    \/ HandleDone

SpecHandle == InitRouter /\ [][NextHandle]_vars

-----------------------------------------------------------------------------
(* Specification of the conversation service: sendMessage, one call at a time,
   on one conversation, through the exported coordinator *)

\* The users who send, and the messages they send: an order request, a word of
\* the order keyword list, a greeting.
ServiceUsers == {"user-1", "user-2"}

ConversationRequests == {"Track my order ORD-001", "cancel", "hello"}

\* What the LLM does with them: it names a category, or the call fails.
ConversationReplies ==
    { reply \in LLMReplies :
        \/ reply.kind = "callFails"
        \/ reply.kind = "value" /\ reply.agentType \in {"ORDER", "BILLING"} }

\* The tables answer without a failure.
ConversationAnswers ==
    { answers \in ToolAnswers : ~answers.dbFails /\ answers.refund = "found" }

\* prisma.conversation.create: the row of a new conversation (context null).
createdConversation(userId, message) ==
    [exists |-> TRUE, userId |-> userId, agentType |-> "ROUTER", context |-> NullContext,
     title |-> SubSeq(message, 1, IF Len(message) < 50 THEN Len(message) ELSE 50) \o "..."]

\* A row of the messages table (createdAt is its place in the sequence).
messageRow(role, content, agentType, reasoning) ==
    [role |-> role, content |-> content, agentType |-> agentType, reasoning |-> reasoning]

\* The context sendMessage builds from the conversation row and the message
\* rows loaded with it (at most 50; the runs here stay below that). Metadata
\* {} reads as undefined for every member.
buildContext(userId, conversation, messages) ==
    [present |-> TRUE,
     conversationId |-> "conv-1",
     userId |-> userId,
     previousMessages |->
         [k \in DOMAIN messages |->
             [role |-> messages[k].role, content |-> messages[k].content,
              agentType |-> messages[k].agentType]],
     agentType |-> conversation.agentType,
     metadata |-> IF "null" \in DOMAIN conversation.context
                  THEN [lastOrderNumber |-> Undefined, lastAgentType |-> Undefined]
                  ELSE conversation.context]

\* A plausible slip: the category the conversation had when it was loaded is
\* written back.
updatedConversationFromContext(conversation, context, resp) ==
    [conversation EXCEPT
        !.agentType = context.agentType,
        !.context = [context.metadata EXCEPT !.lastAgentType = resp.agentType]]

\* prisma.conversation.update: the category of the response and the metadata
\* with lastAgentType (updatedAt and lastMessageAt, clock readings, are left out).
updatedConversation(conversation, context, resp) ==
    [conversation EXCEPT
        !.agentType = resp.agentType,
        !.context = [context.metadata EXCEPT !.lastAgentType = resp.agentType]]

\* A method of the service throws before anything is written.
sendThrows(error) ==
    /\ sendError' = error
    /\ UNCHANGED <<routerFields, scorer, routeLog, coordinatorVars, store, sends, toolVars>>

\* The call a method of the service was entered with.
serviceCall(method, userId, withId) ==
    [pc |-> "called", method |-> method, userId |-> userId, withId |-> withId]

\* sendMessage({userId, conversationId, message}) up to its call of
\* processMessage: the conversation is loaded (withId) or created, the context
\* built, the USER message saved. One conversation is followed: a call without
\* an id is made only while there is none.
SendMessage(userId, withId, m) ==
    /\ pc = "idle"
    /\ Len(store.messages) < 2 * MaxCalls
    /\ withId \/ ~store.conversation.exists
    /\ lastCall' = serviceCall("sendMessage", userId, withId)
    /\ IF withId /\ ~store.conversation.exists
       THEN sendThrows("Conversation not found")
       ELSE IF withId /\ store.conversation.userId # userId
       THEN sendThrows("Unauthorized access to conversation")
       ELSE LET conversation == IF withId THEN store.conversation
                                ELSE createdConversation(userId, m)
            IN  /\ store' = [conversation |-> conversation,
                             messages |-> Append(store.messages,
                                                 messageRow("USER", m, Undefined, Undefined))]
                /\ sendError' = Undefined
                /\ pc' = "routing"
                /\ callMessage' = m
                /\ callContext' = buildContext(userId, conversation, store.messages)
                /\ UNCHANGED <<routerFields, scorer, routeLog, useLLMRouter, orderTable,
                               routingDecision, invoked, toolCalls, handlerResponse,
                               response, llmCall, sends, toolVars>>

\* The rest of sendMessage, processMessage having returned: the ASSISTANT
\* message is saved, the conversation row updated, the result returned.
SendMessageDone ==
    /\ pc = "done"
    /\ store' = [conversation |-> updatedConversation(store.conversation, callContext, response),
                 messages |-> Append(store.messages,
                                     messageRow("ASSISTANT", response.content,
                                                response.agentType, response.reasoning))]
    /\ pc' = "idle"
    /\ callMessage' = ""
    /\ callContext' = NoContext
    /\ routingDecision' = NoDecision
    /\ invoked' = << >>
    /\ toolCalls' = << >>
    /\ handlerResponse' = NoResponse
    /\ response' = NoResponse
    /\ llmCall' = NoReply
    /\ UNCHANGED <<routerFields, scorer, routeLog, useLLMRouter, orderTable, sendError,
                   lastCall, sends, toolVars>>

\* A plausible slip: the owner is not compared with the caller.
DeleteConversationUnchecked(userId) ==
    /\ pc = "idle"
    /\ lastCall' = serviceCall("deleteConversation", userId, TRUE)
    /\ IF ~store.conversation.exists
       THEN sendThrows("Conversation not found")
       ELSE /\ store' = [conversation |-> NoConversation, messages |-> << >>]
            /\ sendError' = Undefined
            /\ UNCHANGED <<routerFields, scorer, routeLog, coordinatorVars, sends, toolVars>>

\* getConversation({conversationId, userId}): throws, or returns the
\* conversation with its messages; nothing is written.
GetConversation(userId) ==
    /\ pc = "idle"
    /\ lastCall' = serviceCall("getConversation", userId, TRUE)
    /\ IF ~store.conversation.exists
       THEN sendThrows("Conversation not found")
       ELSE IF store.conversation.userId # userId
       THEN sendThrows("Unauthorized access to conversation")
       ELSE /\ sendError' = Undefined
            /\ UNCHANGED <<routerFields, scorer, routeLog, coordinatorVars, store, sends,
                           toolVars>>

\* deleteConversation(conversationId, userId): throws, or deletes the
\* conversation row, and its message rows with it.
DeleteConversation(userId) ==
    /\ pc = "idle"
    /\ lastCall' = serviceCall("deleteConversation", userId, TRUE)
    /\ IF ~store.conversation.exists
       THEN sendThrows("Conversation not found")
       ELSE IF store.conversation.userId # userId
       THEN sendThrows("Unauthorized access to conversation")
       ELSE /\ store' = [conversation |-> NoConversation, messages |-> << >>]
            /\ sendError' = Undefined
            /\ UNCHANGED <<routerFields, scorer, routeLog, coordinatorVars, sends, toolVars>>

NextConversation ==
    \/ /\ pc = "idle"
       /\ \E userId \in ServiceUsers, withId \in BOOLEAN, m \in ConversationRequests :
             SendMessage(userId, withId, m)
    \/ \E reply \in ConversationReplies : LLMRoute(reply)
    \/ \E answers \in ConversationAnswers : Dispatch(answers)
    \/ SendMessageDone
    \/ \E userId \in ServiceUsers : GetConversation(userId)
    \/ \E userId \in ServiceUsers : DeleteConversation(userId)

SpecConversation == InitRouter /\ [][NextConversation]_vars

-----------------------------------------------------------------------------
(* Specification of sendMessage calls side by side: two callers on one
   conversation, each call a step per awaited call of sendMessage, and a
   database call of the service may throw *)

\* The sendMessage calls that may write their rows in one run.
MaxSends == 2

InterleavedRequests == {"Track my order ORD-001", "hello"}

\* The LLM call fails (the reply is then the support responder's), or names
\* the order responder.
InterleavedReplies ==
    {reply \in ConversationReplies : reply.kind = "value" => reply.agentType = "ORDER"}

\* processMessage(message, context) of the exported coordinator: the decision
\* of the LLM router, the responder's handle, the reasoning copied over.
processMessage(message, context, reply, answers, table) ==
    LET decision == llmRoute(reply)
        done == handle(responderFor(decision.agentType), message,
                       updatedContext(context, decision), table, answers)
    IN  [response |-> finalResponse(done.response, decision), table |-> done.table]

\* The locals of a sendMessage call between two of its awaited calls.
sendAt(label, created, message, context, resp) ==
    [pc |-> label, created |-> created, message |-> message, context |-> context,
     response |-> resp]

\* A message row with its id: the call that created it.
rowOf(i, row) == [call |-> i] @@ row

InFlight == {i \in Callers : sends[i].pc \in {"loaded", "saved", "processed", "answered"}}

\* sendMessage is entered by caller i: the conversation is loaded with its
\* messages (withId) or created, and the context is built.
SendLoad(i, withId, m) ==
    /\ sends[i].pc \in {"idle", "returned", "failed"}
    /\ Len(store.messages) + 2 * Cardinality(InFlight) + 2 <= 2 * MaxSends
    /\ withId \/ ~store.conversation.exists
    /\ IF withId /\ ~store.conversation.exists
       THEN /\ sends' = [sends EXCEPT ![i] = [pc |-> "failed",
                                              error |-> "Conversation not found"]]
            /\ UNCHANGED store
       ELSE LET conversation == IF withId THEN store.conversation
                                ELSE createdConversation("user-1", m)
            IN  /\ store' = [store EXCEPT !.conversation = conversation]
                /\ sends' = [sends EXCEPT
                                ![i] = sendAt("loaded", ~withId, m,
                                              buildContext("user-1", conversation,
                                                           store.messages),
                                              NoResponse)]
    /\ UNCHANGED <<routerFields, scorer, routeLog, coordinatorVars, sendError, lastCall,
                   toolVars>>

\* prisma.message.create of the USER message.
SendSaveUser(i) ==
    /\ sends[i].pc = "loaded"
    /\ store' = [store EXCEPT
                    !.messages = Append(@, rowOf(i, messageRow("USER", sends[i].message,
                                                               Undefined, Undefined)))]
    /\ sends' = [sends EXCEPT ![i].pc = "saved"]
    /\ UNCHANGED <<routerFields, scorer, routeLog, coordinatorVars, sendError, lastCall,
                   toolVars>>

\* The call of processMessage, up to its return.
SendProcess(i, reply, answers) ==
    /\ sends[i].pc = "saved"
    /\ \E done \in { processMessage(sends[i].message, sends[i].context, reply, answers,
                                      orderTable) } :
          /\ sends' = [sends EXCEPT ![i].pc = "processed", ![i].response = done.response]
          /\ orderTable' = done.table
    /\ UNCHANGED <<routerFields, scorer, routeLog, useLLMRouter, pc, callMessage, callContext,
                   routingDecision, invoked, toolCalls, handlerResponse, response, llmCall,
                   store, sendError, lastCall, toolVars>>

\* prisma.message.create of the ASSISTANT message.
SendSaveAssistant(i) ==
    /\ sends[i].pc = "processed"
    /\ store' = [store EXCEPT
                    !.messages = Append(@, rowOf(i, messageRow("ASSISTANT",
                                                               sends[i].response.content,
                                                               sends[i].response.agentType,
                                                               sends[i].response.reasoning)))]
    /\ sends' = [sends EXCEPT ![i].pc = "answered"]
    /\ UNCHANGED <<routerFields, scorer, routeLog, coordinatorVars, sendError, lastCall,
                   toolVars>>

\* prisma.conversation.update, and the return of sendMessage.
SendUpdate(i) ==
    /\ sends[i].pc = "answered"
    /\ store' = [store EXCEPT
                    !.conversation = updatedConversation(@, sends[i].context,
                                                         sends[i].response)]
    /\ sends' = [sends EXCEPT ![i] = [pc |-> "returned"]]
    /\ UNCHANGED <<routerFields, scorer, routeLog, coordinatorVars, sendError, lastCall,
                   toolVars>>

\* The next database call of sendMessage throws (the create of the USER
\* message, the create of the ASSISTANT message, the update): nothing catches
\* it and nothing written so far is taken back.
SendFail(i) ==
    /\ sends[i].pc \in {"loaded", "processed", "answered"}
    /\ sends' = [sends EXCEPT ![i] = [pc |-> "failed", error |-> "database call failed",
                                      created |-> sends[i].created]]
    /\ UNCHANGED <<routerFields, scorer, routeLog, coordinatorVars, store, sendError,
                   lastCall, toolVars>>

NextInterleaved ==
    \/ \E i \in Callers, withId \in BOOLEAN, m \in InterleavedRequests : SendLoad(i, withId, m)
    \/ \E i \in Callers : SendSaveUser(i)
    \/ \E i \in Callers, reply \in InterleavedReplies, answers \in ConversationAnswers :
            SendProcess(i, reply, answers)
    \/ \E i \in Callers : SendSaveAssistant(i)
    \/ \E i \in Callers : SendUpdate(i)
    \/ \E i \in Callers : SendFail(i)

SpecInterleaved == InitRouter /\ [][NextInterleaved]_vars

-----------------------------------------------------------------------------
(* Specification of the tools that write: a cancelOrder call and the
   processRefund calls of two callers side by side, each call a step per
   database round trip *)

\* order.refunds.reduce((sum, r) => sum + Number(r.amount), 0), over the
\* refund records of an order (orders are identified by their number here).
RECURSIVE refunded(_, _)
refunded(records, orderId) ==
    IF Len(records) = 0 THEN 0
    ELSE refunded(SubSeq(records, 1, Len(records) - 1), orderId)
         + (IF records[Len(records)].orderId = orderId THEN records[Len(records)].amount
            ELSE 0)

\* A processRefund call that has returned: its result.
refundReturned(success, message) ==
    [pc |-> "returned", success |-> success, message |-> message]

\* The tools start on a table whose first order is in any status.
InitTools ==
    /\ routerConstructed
    /\ useLLMRouter = TRUE
    /\ orderTable \in { [InitialTables[1] EXCEPT !["ORD-001"].status = st] : st \in OrderStatuses }
    /\ idleRequest
    /\ serviceConstructed

\* cancelOrder(orderNumber, reason) to its first await and through the checks
\* on what findUnique returned: the status read, and the result the call will
\* return (computed from the row read).
CancelOrderFind(orderNumber, dbFails) ==
    /\ cancelCall.pc \in {"idle", "returned"}
    /\ LET order == findOrder(orderTable, orderNumber)
           done == cancelOrder(orderTable, orderNumber, dbFails)
       IN  cancelCall' =
             [pc |-> IF done.result.success THEN "read" ELSE "returned",
              orderNumber |-> orderNumber,
              statusRead |-> IF ~dbFails /\ order.exists THEN order.status ELSE Undefined,
              result |-> done.result]
    /\ UNCHANGED <<routerFields, scorer, routeLog, coordinatorVars, serviceVars, refunds,
                   refundCalls>>

\* prisma.order.update to CANCELLED; the call returns.
CancelOrderUpdate(dbFails) ==
    /\ cancelCall.pc = "read"
    /\ orderTable' = IF dbFails THEN orderTable
                     ELSE [orderTable EXCEPT ![cancelCall.orderNumber].status = "CANCELLED"]
    /\ cancelCall' =
          [cancelCall EXCEPT
             !.pc = "returned",
             !.result = IF dbFails
                        THEN [success |-> FALSE, status |-> "PENDING",
                              message |-> "Failed to cancel order"]
                        ELSE cancelCall.result]
    /\ UNCHANGED <<routerFields, scorer, routeLog, serviceVars, refunds, refundCalls,
                   useLLMRouter, pc, callMessage, callContext, routingDecision, invoked,
                   toolCalls, handlerResponse, response, llmCall>>

\* processRefund(orderId, amount, reason) by caller i, to its first await and
\* through the checks on what findUnique returned. At most MaxCalls refunds
\* are let through.
ProcessRefundFind(i, orderId, amount, dbFails) ==
    /\ refundCalls[i].pc \in {"idle", "returned"}
    /\ Len(refunds) + Cardinality({ j \in Callers : refundCalls[j].pc = "checked" }) < MaxCalls
    /\ LET order == findOrder(orderTable, orderId)
           maxRefundAmount == order.paid - refunded(refunds, orderId)
       IN  refundCalls' =
             [refundCalls EXCEPT ![i] =
                IF dbFails
                THEN refundReturned(FALSE, "Failed to process refund")
                ELSE IF ~order.exists
                THEN refundReturned(FALSE, "Order " \o orderId \o " not found")
                ELSE IF order.paid = 0
                THEN refundReturned(FALSE, "No completed payment found for this order")
                ELSE IF amount > maxRefundAmount
                THEN refundReturned(FALSE,
                                    "Refund amount exceeds available refund. Maximum refund: $"
                                      \o ToString(maxRefundAmount))
                ELSE [pc |-> "checked", orderId |-> orderId, amount |-> amount,
                      maxRefundAmount |-> maxRefundAmount]]
    /\ UNCHANGED <<routerFields, scorer, routeLog, coordinatorVars, serviceVars, refunds,
                   cancelCall>>

\* prisma.refund.create; the call returns unless the order is to be updated.
ProcessRefundCreate(i) ==
    /\ refundCalls[i].pc = "checked"
    /\ LET call == refundCalls[i]
       IN  /\ refunds' = Append(refunds, [orderId |-> call.orderId, amount |-> call.amount])
           /\ refundCalls' =
                 [refundCalls EXCEPT ![i] =
                    IF call.amount = call.maxRefundAmount
                    THEN [call EXCEPT !.pc = "created"]
                    ELSE refundReturned(TRUE,
                                        "Refund of $" \o ToString(call.amount)
                                          \o " initiated successfully.")]
    /\ UNCHANGED <<routerFields, scorer, routeLog, coordinatorVars, serviceVars, cancelCall>>

\* prisma.order.update to REFUNDED, the refund being the whole of what was
\* left; the call returns.
ProcessRefundUpdate(i) ==
    /\ refundCalls[i].pc = "created"
    /\ LET call == refundCalls[i]
       IN  /\ orderTable' = [orderTable EXCEPT ![call.orderId].status = "REFUNDED"]
           /\ refundCalls' =
                 [refundCalls EXCEPT ![i] =
                    refundReturned(TRUE,
                                   "Refund of $" \o ToString(call.amount)
                                     \o " initiated successfully.")]
    /\ UNCHANGED <<routerFields, scorer, routeLog, serviceVars, refunds, cancelCall,
                   useLLMRouter, pc, callMessage, callContext, routingDecision, invoked,
                   toolCalls, handlerResponse, response, llmCall>>

NextTools ==
    \/ \E orderNumber \in OrderNumbers \cup {"ORD-009"}, dbFails \in BOOLEAN :
          CancelOrderFind(orderNumber, dbFails)
    \/ \E dbFails \in BOOLEAN : CancelOrderUpdate(dbFails)
    \/ \E i \in Callers, orderId \in {"ORD-001", "ORD-009"}, amount \in {60, 120, 200},
          dbFails \in BOOLEAN :
          ProcessRefundFind(i, orderId, amount, dbFails)
    \/ \E i \in Callers : ProcessRefundCreate(i)
    \/ \E i \in Callers : ProcessRefundUpdate(i)

SpecTools == InitTools /\ [][NextTools]_vars

-----------------------------------------------------------------------------
(* Properties of the scorer (checked under SpecScore) *)

\* The keyword k occurs in m, character by character from some offset.
OccursIn(k, m) ==
    \E off \in 0..(Len(m) - Len(k)) :
        \A j \in 1..Len(k) : SubSeq(m, off + j, off + j) = SubSeq(k, j, j)

\* The keyword k occurs in m with a word boundary before its first and after
\* its last character: on each side exactly one of the two neighbouring
\* characters is a word character (the ends of m count as non-word).
WholeWordIn(k, m) ==
    \E off \in 0..(Len(m) - Len(k)) :
        /\ \A j \in 1..Len(k) : SubSeq(m, off + j, off + j) = SubSeq(k, j, j)
        /\ isWordAt(m, off) # isWordAt(m, off + 1)
        /\ isWordAt(m, off + Len(k)) # isWordAt(m, off + Len(k) + 1)

SubstringEntries(m, kws) == { i \in DOMAIN kws : OccursIn(kws[i], m) }
WholeWordEntries(m, kws) == { i \in DOMAIN kws : WholeWordIn(kws[i], m) }

\* 0.2 for every entry that occurs, a further 0.1 for every entry that occurs
\* as a whole word, before the clamp.
RawSum(m, kws) ==
    20 * Cardinality(SubstringEntries(m, kws)) + 10 * Cardinality(WholeWordEntries(m, kws))

RouterFieldsUntouched ==
    /\ orderKeywords = OrderKeywordList
    /\ billingKeywords = BillingKeywordList
    /\ supportKeywords = SupportKeywordList

\* C1: calculateScore returns min(1.0, sum over the list entries of 0.2 for an
\* entry that occurs as a substring of the message plus 0.1 more when it also
\* matches as a whole word), entries that do not occur adding nothing, and it
\* changes nothing of the router.
C1_ScoreIsClampedSum ==
    /\ scorer.pc = "returned" =>
         scorer.result = Min(100, RawSum(scorer.message, scorer.keywords))
    /\ RouterFieldsUntouched

\* A call whose list has an entry that is a bare substring, one that is a whole
\* word and one that does not occur, below the clamp.
C1_Witness ==
    /\ scorer.pc = "returned"
    /\ scorer.result < 100
    /\ \E i \in SubstringEntries(scorer.message, scorer.keywords) :
          i \notin WholeWordEntries(scorer.message, scorer.keywords)
    /\ WholeWordEntries(scorer.message, scorer.keywords) # {}
    /\ \E i \in DOMAIN scorer.keywords :
          i \notin SubstringEntries(scorer.message, scorer.keywords)

\* C2: the score lies in [0, 1]; it is 0 for an empty list or when no keyword
\* occurs, at least 0.2 when some keyword occurs, at least 0.3 when some
\* keyword is a whole word, and never strictly between 0 and 0.2.
C2_ScoreRange ==
    scorer.pc = "returned" =>
        LET r == scorer.result
            subs == SubstringEntries(scorer.message, scorer.keywords)
            words == WholeWordEntries(scorer.message, scorer.keywords)
        IN  /\ r >= 0 /\ r <= 100
            /\ (Len(scorer.keywords) = 0 \/ subs = {}) => r = 0
            /\ subs # {} => r >= 20
            /\ words # {} => r >= 30
            /\ ~(r > 0 /\ r < 20)

\* A call where the matches add up to more than 1.0 and the result is 1.0.
C2_Witness ==
    /\ scorer.pc = "returned"
    /\ RawSum(scorer.message, scorer.keywords) > 100
    /\ scorer.result = 100

-----------------------------------------------------------------------------
(* Properties of the keyword router (checked under SpecRoute and SpecRepeat) *)

Categories == << "ORDER", "BILLING", "SUPPORT" >>

KeywordsOf(category) ==
    CASE category = "ORDER" -> orderKeywords
      [] category = "BILLING" -> billingKeywords
      [] category = "SUPPORT" -> supportKeywords

\* The scores of a message on the three keyword lists, in the order of
\* Categories.
ScoresOf(m) ==
    LET lowered == toLowerCase(m)
    IN  << calculateScore(lowered, orderKeywords),
           calculateScore(lowered, billingKeywords),
           calculateScore(lowered, supportKeywords) >>

IndexOf(category) == CHOOSE i \in 1..3 : Categories[i] = category

\* The highest of three scores.
Top(sc) == CHOOSE x \in { sc[1], sc[2], sc[3] } : \A j \in 1..3 : sc[j] <= x

\* The context names one of the three categories and the message scores above
\* 0.1 on that category's list.
ContinuityApplies(call, sc) ==
    /\ call.context.present
    /\ call.context.agentType \in {"ORDER", "BILLING", "SUPPORT"}
    /\ sc[IndexOf(call.context.agentType)] > 10

ContinuityTaken(call) ==
    call.decision.reasoning = "Continuing with same agent based on conversation context"

FallbackTaken(call) ==
    call.decision.reasoning = "Low confidence - using support agent as fallback"

Calls == { routeLog[k] : k \in DOMAIN routeLog }

\* C3: with a context of category ORDER, BILLING or SUPPORT and a message
\* scoring above 0.1 on that category's list, route returns that category with
\* confidence 0.9, whatever the other scores; without a context, or with the
\* ROUTER category, the short-circuit is not taken.
C3_ContinuityShortCircuit ==
    \A call \in Calls :
        LET sc == ScoresOf(call.message)
        IN  /\ ContinuityApplies(call, sc) =>
                  /\ call.decision.agentType = call.context.agentType
                  /\ call.decision.confidence = 90
                  /\ ContinuityTaken(call)
            /\ (~call.context.present \/ call.context.agentType = "ROUTER") =>
                  ~ContinuityTaken(call)

\* Continuity kept ORDER on a bare substring match although BILLING scores
\* strictly higher.
C3_Witness ==
    \E call \in Calls :
        LET sc == ScoresOf(call.message)
        IN  /\ call.context.present
            /\ call.context.agentType = "ORDER"
            /\ sc[1] = 20
            /\ sc[2] > 20
            /\ call.decision.agentType = "ORDER"
            /\ call.decision.confidence = 90

\* C4: when continuity does not apply and the highest score is at least 0.2,
\* the returned category scores that maximum and is the earliest of ORDER,
\* BILLING, SUPPORT to do so.
C4_FreshClassification ==
    \A call \in Calls :
        LET sc == ScoresOf(call.message)
        IN  (~ContinuityApplies(call, sc) /\ Top(sc) >= 20) =>
                \E i \in 1..3 :
                    /\ call.decision.agentType = Categories[i]
                    /\ sc[i] = Top(sc)
                    /\ \A j \in 1..(i - 1) : sc[j] < Top(sc)

\* ORDER and BILLING share the maximum and ORDER is returned.
C4_Witness ==
    \E call \in Calls :
        LET sc == ScoresOf(call.message)
        IN  /\ ~ContinuityApplies(call, sc)
            /\ Top(sc) >= 20
            /\ sc[1] = Top(sc)
            /\ sc[2] = Top(sc)
            /\ call.decision.agentType = "ORDER"
            /\ ~ContinuityTaken(call)

NoKeywordOccurs(m) ==
    LET lowered == toLowerCase(m)
    IN  \A i \in 1..3 : SubstringEntries(lowered, KeywordsOf(Categories[i])) = {}

\* C5: a message matching no keyword of any category is routed to SUPPORT with
\* confidence 0.5 under every context; the fallback is taken exactly when the
\* winning score is below 0.2 and then returns SUPPORT whatever sorted first.
C5_LowConfidenceFallback ==
    \A call \in Calls :
        LET sc == ScoresOf(call.message)
        IN  /\ NoKeywordOccurs(call.message) =>
                  /\ call.decision.agentType = "SUPPORT"
                  /\ call.decision.confidence = 50
            /\ FallbackTaken(call) <=> Top(sc) < 20
            /\ FallbackTaken(call) =>
                  /\ call.decision.agentType = "SUPPORT"
                  /\ call.decision.confidence = 50

\* A message without keywords, sent in an ORDER conversation, falls back to
\* SUPPORT.
C5_Witness ==
    \E call \in Calls :
        /\ call.context.present
        /\ call.context.agentType = "ORDER"
        /\ NoKeywordOccurs(call.message)
        /\ FallbackTaken(call)
        /\ call.decision.agentType = "SUPPORT"

\* C6: on the normal return the confidence is min(winning score, 0.95); every
\* decision has confidence 0.5, 0.9 or a value in [0.2, 0.95].
C6_ConfidenceCap ==
    \A call \in Calls :
        LET sc == ScoresOf(call.message)
        IN  /\ (~ContinuityTaken(call) /\ ~FallbackTaken(call)) =>
                  call.decision.confidence = Min(Top(sc), 95)
            /\ \/ call.decision.confidence \in {50, 90}
               \/ call.decision.confidence \in 20..95

\* A winning score of 1.0 returned with confidence 0.95.
C6_Witness ==
    \E call \in Calls :
        /\ ~ContinuityTaken(call)
        /\ Top(ScoresOf(call.message)) = 100
        /\ call.decision.confidence = 95

-----------------------------------------------------------------------------
(* Properties of the coordinator (checked under Spec) *)

\* C8: whatever the router decided, a category of the enumeration or not, the
\* AgentResponse processMessage returns has agentType ORDER, BILLING or
\* SUPPORT, never ROUTER.
C8_FinalCategory ==
    pc = "done" => response.agentType \in {"ORDER", "BILLING", "SUPPORT"}

\* The router decided ROUTER and the response came back as SUPPORT.
C8_Witness ==
    /\ pc = "done"
    /\ routingDecision.agentType = "ROUTER"
    /\ response.agentType = "SUPPORT"

\* The responder the claim names for a decision's category.
ResponderOf(category) ==
    IF category = "ORDER" THEN "order"
    ELSE IF category = "BILLING" THEN "billing"
    ELSE "support"

\* The category a responder answers with.
CategoryOf(responder) ==
    IF responder = "order" THEN "ORDER"
    ELSE IF responder = "billing" THEN "BILLING"
    ELSE "SUPPORT"

\* C9: processMessage invokes exactly one responder per message, the one of
\* the decision's category and the Support responder for any other category,
\* and hands it a context whose agentType is the decision's category.
C9_OneResponder ==
    /\ Len(invoked) <= 1
    /\ pc = "done" =>
          /\ Len(invoked) = 1
          /\ invoked[1].responder = ResponderOf(routingDecision.agentType)
          /\ invoked[1].context.agentType = routingDecision.agentType
          /\ handlerResponse.agentType = CategoryOf(invoked[1].responder)

\* A decision outside the enumeration went to the Support responder, which
\* was handed that category, in a conversation stored under another one.
C9_Witness ==
    /\ pc = "done"
    /\ routingDecision.agentType \notin AgentTypes
    /\ routingDecision.agentType # Undefined
    /\ callContext.agentType = "ORDER"
    /\ Len(invoked) = 1
    /\ invoked[1].responder = "support"
    /\ invoked[1].context.agentType = routingDecision.agentType

-----------------------------------------------------------------------------
(* Tool calls and failures of one processMessage call (checked under Spec) *)

\* C11: during one processMessage call at most one tool function is invoked,
\* for every message, every responder branch and every tool outcome.
C11_AtMostOneToolCall ==
    pc = "done" => Len(toolCalls) <= 1

-----------------------------------------------------------------------------
(* Properties of the order and billing responders (checked under SpecHandle) *)

\* The order responder has answered the current request.
OrderHandled == pc = "handled" /\ invoked[1].responder = "order"

BillingHandled == pc = "handled" /\ invoked[1].responder = "billing"

\* The names of the tool functions called for the current request.
ToolsCalled == { toolCalls[k].name : k \in DOMAIN toolCalls }

\* The reasonings the replies of each branch of the order responder carry.
BranchReasonings(branch) ==
    CASE branch = "tracking" ->
            {"Requesting order number for tracking", "Provided tracking information",
             "Tracking information not available"}
      [] branch = "status" ->
            {"Requesting order number for status check", "Provided order details",
             "Order details not found"}
      [] branch = "cancellation" ->
            {"Requesting order number for cancellation", "Order cancelled",
             "Order cancellation failed"}
      [] branch = "modification" ->
            {"Requesting order number for modification", "Requesting modification details",
             "Modification completed", "Modification failed"}

\* The tool function each branch calls.
BranchTool(branch) ==
    CASE branch = "tracking" -> "trackOrder"
      [] branch = "status" -> "getOrderDetails"
      [] branch = "cancellation" -> "cancelOrder"
      [] branch = "modification" -> "modifyOrder"

\* The predicates of the order responder, in the order of priority the claim
\* gives, and whether the predicate of a branch matches a lower-cased message.
BranchOrder == << "tracking", "status", "cancellation", "modification" >>

BranchMatches(branch, m) ==
    CASE branch = "tracking" -> isTrackingRequest(m)
      [] branch = "status" -> isStatusRequest(m)
      [] branch = "cancellation" -> isCancellationRequest(m)
      [] branch = "modification" -> isModificationRequest(m)

\* C12: the order responder runs only the branch of the earliest predicate
\* that matches, in the order tracking, status, cancellation, modification:
\* the reply is one of that branch, no tool of another branch is called, so
\* cancelOrder is never called for a tracking or status message and
\* modifyOrder never for a tracking, status or cancellation message.
C12_OrderPriority ==
    OrderHandled =>
        LET m == toLowerCase(callMessage)
        IN  /\ \A k \in DOMAIN BranchOrder :
                  (/\ BranchMatches(BranchOrder[k], m)
                   /\ \A j \in 1..(k - 1) : ~BranchMatches(BranchOrder[j], m))
                  => /\ handlerResponse.reasoning \in BranchReasonings(BranchOrder[k])
                     /\ ToolsCalled \subseteq {BranchTool(BranchOrder[k])}
            /\ "cancelOrder" \in ToolsCalled =>
                  ~isTrackingRequest(m) /\ ~isStatusRequest(m)
            /\ "modifyOrder" \in ToolsCalled =>
                  ~isTrackingRequest(m) /\ ~isStatusRequest(m) /\ ~isCancellationRequest(m)

\* A message that asks to track and to cancel, with an order number at hand:
\* trackOrder was called, cancelOrder was not, the order is as it was.
C12_Witness ==
    /\ OrderHandled
    /\ isTrackingRequest(toLowerCase(callMessage))
    /\ isCancellationRequest(toLowerCase(callMessage))
    /\ ToolsCalled = {"trackOrder"}
    /\ orderTable["ORD-001"].status = "PENDING"

\* A sub-intent of the order responder matches the message and the message
\* holds no order number.
IntentWithoutNumber ==
    /\ OrderHandled
    /\ \E k \in DOMAIN BranchOrder : BranchMatches(BranchOrder[k], toLowerCase(callMessage))
    /\ matchOrderNumber(callMessage) = Undefined

\* The replies that ask the user for the order number.
ClarificationReasonings ==
    {"Requesting order number for tracking", "Requesting order number for status check",
     "Requesting order number for cancellation", "Requesting order number for modification"}

\* C13 as claimed: when a sub-intent matches and the message holds no order
\* number, the reply asks for it and no tool function is called, whatever the
\* context metadata contains.
C13_ClarificationWhateverMetadata ==
    IntentWithoutNumber =>
        /\ toolCalls = << >>
        /\ handlerResponse.reasoning \in ClarificationReasonings

\* C13 as amended: when a sub-intent matches, the message holds no order
\* number and the metadata holds no lastOrderNumber, the reply asks for the
\* number and no tool function is called; when the metadata holds a
\* lastOrderNumber no clarification is asked, every tool call is made with that
\* number, and the tracking, status and cancellation branches call their tool.
C13_ClarificationUnlessStored ==
    IntentWithoutNumber =>
        LET stored == callContext.metadata.lastOrderNumber
            m == toLowerCase(callMessage)
        IN  IF ~truthy(stored)
            THEN /\ toolCalls = << >>
                 /\ handlerResponse.reasoning \in ClarificationReasonings
            ELSE /\ handlerResponse.reasoning \notin ClarificationReasonings
                 /\ \A k \in DOMAIN toolCalls : toolCalls[k].argument = stored
                 /\ (isTrackingRequest(m) \/ isStatusRequest(m) \/ isCancellationRequest(m))
                       => Len(toolCalls) = 1

\* "cancel" with no order number in the message and ORD-001 stored in the
\* metadata: cancelOrder was called with ORD-001 and the order is cancelled.
C13_Witness ==
    /\ IntentWithoutNumber
    /\ callContext.metadata.lastOrderNumber = "ORD-001"
    /\ Len(toolCalls) = 1
    /\ toolCalls[1].name = "cancelOrder"
    /\ toolCalls[1].argument = "ORD-001"
    /\ orderTable["ORD-001"].status = "CANCELLED"

\* Does s start with prefix.
StartsWith(s, prefix) ==
    Len(prefix) <= Len(s) /\ SubSeq(s, 1, Len(prefix)) = prefix

\* The texts only a successful tool result is answered with.
SuccessOnlyText(content) ==
    \/ StartsWith(content, "Your order ")
    \/ \E n \in OrderNumbers \cup {"ORD-009"} : StartsWith(content, "Order " \o n \o " Status: ")
    \/ StartsWith(content, "Order cancelled")
    \/ content = "Order modified successfully"

\* The fixed texts used when a failed result carries no text.
UnableTexts ==
    {"Unable to retrieve tracking information.", "Unable to retrieve order details."}

\* C14: when the tool called for a tracking, status, cancellation or
\* modification request reports failure, handle returns with agentType ORDER
\* and the tool's error or message text as content (a fixed "Unable to
\* retrieve ..." text when the tool gave none), never a success-only text.
C14_FailureReported ==
    OrderHandled =>
        \A k \in DOMAIN toolCalls :
            (/\ toolCalls[k].name \in {"trackOrder", "getOrderDetails", "cancelOrder", "modifyOrder"}
             /\ toolCalls[k].outcome = "failure")
            => /\ handlerResponse.agentType = "ORDER"
               /\ IF toolCalls[k].text # Undefined /\ toolCalls[k].text # ""
                  THEN handlerResponse.content = toolCalls[k].text
                  ELSE handlerResponse.content \in UnableTexts
               /\ ~SuccessOnlyText(handlerResponse.content)

\* trackOrder was asked for an order that is in no table and the reply says so.
C14_Witness ==
    /\ OrderHandled
    /\ Len(toolCalls) = 1
    /\ toolCalls[1].name = "trackOrder"
    /\ toolCalls[1].argument = "ORD-009"
    /\ toolCalls[1].outcome = "failure"
    /\ handlerResponse.content = "Order ORD-009 not found"

\* C15: in the billing responder, when the message carries a refund or invoice
\* id and the lookup tool reports failure for it, the reply includes the
\* error string saying so, and is not a payment-history reply.
C15_LookupFailureReported ==
    BillingHandled =>
        \A k \in DOMAIN toolCalls :
            (/\ toolCalls[k].name \in {"checkRefundStatus", "getInvoiceDetails"}
             /\ toolCalls[k].outcome = "failure")
            => /\ includes(handlerResponse.content, toolCalls[k].text)
               /\ "getPaymentHistory" \notin ToolsCalled

-----------------------------------------------------------------------------
(* Properties of processMessage under failures (checked under Spec) *)

\* A reply's content is text: a string, and not the empty one.
IsText(content) == content # Undefined /\ Len(content) > 0

\* The categories a responder stamps its reply with.
ResponderCategories == {"ORDER", "BILLING", "SUPPORT"}

\* No tool function is called a second time within one request.
NoToolRetried ==
    \A i, j \in DOMAIN toolCalls : i # j => toolCalls[i].name # toolCalls[j].name

-----------------------------------------------------------------------------
(* Properties of the LLM router (checked under Spec) *)

\* The text-generation call of this request failed, or its reply did not parse
\* to a JSON value whose members can be read.
LLMCallFailed == llmCall.kind \in {"callFails", "notJSON", "null"}

\* The router has returned to processMessage.
Routed == pc \in {"dispatch", "done"}

\* C17, as worded: whenever the text-generation call fails or its reply cannot
\* be parsed as JSON, the LLM router returns SUPPORT, confidence 0.5 and the
\* reasoning "classification failed, using fallback.".
C17_FailOpenAsWorded ==
    Routed /\ LLMCallFailed =>
        routingDecision = [agentType |-> "SUPPORT", confidence |-> 50,
                           reasoning |-> "classification failed, using fallback."]

\* C17, amended: whenever the text-generation call fails or its reply cannot be
\* parsed as JSON, the LLM router returns SUPPORT, confidence 0.5 and the
\* reasoning "LLM routing failed, using fallback"; it does not throw: the
\* request goes on to the Support responder and returns with that reasoning.
C17_FailOpen ==
    /\ Routed /\ LLMCallFailed =>
          routingDecision = [agentType |-> "SUPPORT", confidence |-> 50,
                             reasoning |-> "LLM routing failed, using fallback"]
    /\ pc = "done" /\ LLMCallFailed =>
          /\ invoked[1].responder = "support"
          /\ response.agentType = "SUPPORT"
          /\ response.reasoning = "LLM routing failed, using fallback"

\* A request answered by the Support responder after a reply that was no JSON.
C17_Witness ==
    /\ pc = "done"
    /\ llmCall.kind = "notJSON"
    /\ routingDecision.agentType = "SUPPORT"
    /\ routingDecision.confidence = 50
    /\ response.agentType = "SUPPORT"

\* C18: every RouteDecision returned by either router (for the LLM router: for
\* any reply that parses as JSON) has a category in {ORDER, BILLING, SUPPORT,
\* ROUTER} and a confidence in [0, 1] (0 to 100 hundredths).
C18_DecisionWellFormed ==
    Routed =>
        /\ routingDecision.agentType \in AgentTypes
        /\ routingDecision.confidence \in 0..100

-----------------------------------------------------------------------------
(* Frame of processMessage (checked under Spec) *)

-----------------------------------------------------------------------------
(* Properties of the conversation service (checked under SpecConversation) *)

\* The category the conversation was last answered in: that of its last
\* ASSISTANT message before position n, ROUTER when there is none.
RECURSIVE LastAnswered(_, _)
LastAnswered(messages, n) ==
    IF n = 0 THEN "ROUTER"
    ELSE IF messages[n].role = "ASSISTANT" THEN messages[n].agentType
    ELSE LastAnswered(messages, n - 1)

\* C20: category carry-over across messages sent one after the other: once
\* sendMessage has completed, the stored agentType of the conversation is the
\* agentType of its response; the context handed to the router for the next
\* message carries exactly that category; and the router's continuity step
\* for that message is evaluated against it: when the message is related to
\* that category, the decision is the continuity decision for it.
C20_CategoryCarryOver ==
    LET messages == store.messages
        handledBy == LastAnswered(messages, Len(messages))
    IN  /\ pc = "idle" /\ store.conversation.exists =>
              store.conversation.agentType = handledBy
        /\ pc # "idle" => callContext.agentType = handledBy
        /\ /\ Routed
           /\ handledBy \in ResponderCategories
           /\ isRelatedToAgent(callMessage, handledBy)
           => routingDecision = continuityDecision(handledBy)

-----------------------------------------------------------------------------
(* End-to-end scenarios *)

\* The message of scenario 1.
TrackRequest == "Track my order ORD-001"

\* C21: "Track my order ORD-001" sent as the first message of a new
\* conversation through the exported coordinator yields a decision of category
\* ORDER with reasoning "Matched ORDER keywords in message"; the Order
\* responder takes the tracking branch and calls trackOrder with "ORD-001", and
\* when the tool reports success the reply contains "ORD-001" and the tracking
\* number.
C21_TrackOrderScenario ==
    Routed /\ callMessage = TrackRequest /\ Len(store.messages) = 1 =>
        /\ routingDecision.agentType = "ORDER"
        /\ routingDecision.reasoning = "Matched ORDER keywords in message"
        /\ pc = "done" =>
              /\ invoked[1].responder = "order"
              /\ Len(toolCalls) = 1
              /\ toolCalls[1].name = "trackOrder"
              /\ toolCalls[1].argument = "ORD-001"
              /\ toolCalls[1].outcome = "success" =>
                    /\ OccursIn("ORD-001", response.content)
                    /\ OccursIn(orderTable["ORD-001"].trackingNumber, response.content)

\* The reply of the Support responder to a greeting.
GreetingReply ==
    [content |-> "Hello! Welcome to our customer support. How can I help you today?",
     agentType |-> "SUPPORT",
     reasoning |-> "Provided greeting and help options"]

\* C22: whatever category the context carries and whatever the conversation
\* history is, the keyword router routes "hello" to SUPPORT through the
\* low-confidence fallback, and the Support responder returns the fixed
\* greeting reply, having searched the FAQs but not queried the conversation
\* history.
C22_HelloScenario ==
    ~useLLMRouter /\ Routed /\ callMessage = "hello" =>
        /\ routingDecision = [agentType |-> "SUPPORT", confidence |-> FallbackConfidence,
                              reasoning |-> "Low confidence - using support agent as fallback"]
        /\ pc = "done" =>
              /\ invoked[1].responder = "support"
              /\ handlerResponse = GreetingReply
              /\ response = [GreetingReply EXCEPT !.reasoning = routingDecision.reasoning]
              /\ \A k \in DOMAIN toolCalls : toolCalls[k].name = "searchFAQs"

\* "hello" answered with the greeting in a BILLING conversation.
C22_Witness ==
    /\ ~useLLMRouter
    /\ pc = "done"
    /\ callMessage = "hello"
    /\ callContext.agentType = "BILLING"
    /\ handlerResponse = GreetingReply
    /\ Len(toolCalls) = 1

-----------------------------------------------------------------------------
(* Properties of the tools that write (checked under SpecTools) *)

\* The statuses cancelOrder acts on.
Cancellable == {"PENDING", "CONFIRMED"}

\* C23: cancelOrder sets an order's status to CANCELLED only when the status
\* it read is PENDING or CONFIRMED: every step that makes an order CANCELLED
\* is the update of a cancelOrder call that read one of the two; a call that
\* finds no order, or reads any other status, returns success = false and
\* leaves the table unchanged; and an order that is SHIPPED or DELIVERED is
\* never CANCELLED later, whatever tool calls follow.
C23_CancelOnlyWhenCancellable ==
    /\ [][ /\ \A n \in OrderNumbers :
                orderTable'[n].status = "CANCELLED" /\ orderTable[n].status # "CANCELLED" =>
                    /\ cancelCall.pc = "read"
                    /\ cancelCall.orderNumber = n
                    /\ cancelCall.statusRead \in Cancellable
           /\ cancelCall' # cancelCall /\ cancelCall'.pc = "returned" /\ cancelCall.pc # "read" =>
                    /\ cancelCall'.statusRead \notin Cancellable
                    /\ ~cancelCall'.result.success
                    /\ orderTable' = orderTable
           /\ cancelCall'.pc = "read" => cancelCall'.statusRead \in Cancellable
         ]_vars
    /\ \A n \in OrderNumbers :
          [](orderTable[n].status \in {"SHIPPED", "DELIVERED"} =>
                [](orderTable[n].status # "CANCELLED"))

\* A cancelOrder call on a SHIPPED order has returned a failure and the order
\* is SHIPPED still.
C23_Witness ==
    /\ cancelCall.pc = "returned"
    /\ cancelCall.statusRead = "SHIPPED"
    /\ ~cancelCall.result.success
    /\ orderTable[cancelCall.orderNumber].status = "SHIPPED"

\* C26: for every order, the sum of the amounts of its refund records never
\* exceeds the amount of its completed payment, after any sequence and any
\* interleaving of processRefund calls; and a call whose amount exceeds what
\* is left to refund creates no refund record.
C26_RefundBound ==
    /\ [](\A n \in OrderNumbers : refunded(refunds, n) <= orderTable[n].paid)
    /\ [][ \A i \in Callers :
              refundCalls[i].pc = "checked" /\ refundCalls'[i] # refundCalls[i] =>
                  refundCalls[i].amount
                      <= orderTable[refundCalls[i].orderId].paid
                           - refunded(refunds, refundCalls[i].orderId)
         ]_vars

-----------------------------------------------------------------------------
(* Ownership (checked under SpecHandle) *)

\* The tool functions of the order responder that take an order number.
OrderNumberTools == {"getOrderDetails", "trackOrder", "cancelOrder", "modifyOrder"}

\* C24: every getOrderDetails, trackOrder, cancelOrder or modifyOrder call made
\* while handling a request of user U concerns an order whose owner is U: no
\* such call is made with the number of an order of another user.
C24_OwnershipVerified ==
    OrderHandled =>
        \A k \in DOMAIN toolCalls :
            toolCalls[k].name \in OrderNumberTools
            /\ toolCalls[k].argument \in DOMAIN orderTable
            => orderTable[toolCalls[k].argument].userId = callContext.userId

\* ---------------------------------------------------------------------
\* C25  Calls on a conversation that is missing or owned by someone else

ServiceErrors == {"Conversation not found", "Unauthorized access to conversation"}

\* A step that enters a method of the conversation service.
ServiceEntry == pc = "idle" /\ lastCall'.pc = "called"
                            /\ (lastCall' # lastCall \/ sendError' # sendError
                                    \/ store' # store \/ pc' # "idle")

\* Nothing is written and the coordinator is not entered.
NothingDone == store' = store /\ pc' = "idle" /\ UNCHANGED coordinatorVars

\* C25: sendMessage, getConversation and deleteConversation called with
\* the id of a conversation that does not exist fail with 'Conversation
\* not found', and called by a user who does not own the conversation
\* fail with 'Unauthorized access to conversation'; in both cases no
\* message is created, no conversation is updated or deleted, and the
\* coordinator is not invoked. An error of the two is raised in no other
\* case.
C25_MissingOrForeign ==
    [][ServiceEntry =>
          /\ (lastCall'.withId /\ ~store.conversation.exists)
                => sendError' = "Conversation not found" /\ NothingDone
          /\ (lastCall'.withId /\ store.conversation.exists
                               /\ store.conversation.userId # lastCall'.userId)
                => sendError' = "Unauthorized access to conversation" /\ NothingDone
          /\ (sendError' \in ServiceErrors) => NothingDone
          /\ (store' # store) =>
                \/ ~lastCall'.withId
                \/ store.conversation.exists
                       /\ store.conversation.userId = lastCall'.userId]_vars

\* Witness: a user who does not own a conversation holding messages asked
\* to delete it, was refused, and the conversation and its messages stand.
C25_Witness ==
    /\ lastCall.pc = "called"
    /\ lastCall.method = "deleteConversation"
    /\ sendError = "Unauthorized access to conversation"
    /\ store.conversation.exists
    /\ store.conversation.userId # lastCall.userId
    /\ Len(store.messages) = 2
    /\ pc = "idle"

\* ---------------------------------------------------------------------
\* C27  The stored category of a conversation

\* The sendMessage calls that completed on the stored conversation.
CompletedSends == Len(SelectSeq(store.messages, LAMBDA row : row.role = "ASSISTANT"))

ContinuityDecisions == {continuityDecision(agentType) : agentType \in ResponderCategories}

\* C27: the stored agentType of a conversation is ROUTER exactly until its
\* first sendMessage has completed; the first message of a conversation is
\* classified without continuity (by the router in use, and by the keyword
\* router as well); after a completed sendMessage the stored agentType is
\* ORDER, BILLING or SUPPORT, and it never goes back to ROUTER.
C27_RouterOnlyAtFirst ==
    /\ [](store.conversation.exists =>
            /\ store.conversation.agentType = "ROUTER" <=> CompletedSends = 0
            /\ CompletedSends > 0 => store.conversation.agentType \in ResponderCategories
            /\ (CompletedSends = 0 /\ pc \in {"routing", "dispatch", "done"}) =>
                  /\ callContext.agentType = "ROUTER"
                  /\ route(callMessage, callContext) \notin ContinuityDecisions
            /\ (CompletedSends = 0 /\ pc \in {"dispatch", "done"}) =>
                  routingDecision \notin ContinuityDecisions)
    /\ [][(store.conversation.exists /\ store'.conversation.exists
              /\ store.conversation.agentType # "ROUTER")
            => store'.conversation.agentType # "ROUTER"]_vars

\* Witness: two sendMessage calls completed on the conversation, answered by
\* different responders; the stored category is the one of the second.
C27_Witness ==
    /\ store.conversation.exists
    /\ pc = "idle"
    /\ Len(store.messages) = 4
    /\ store.messages[2].agentType # store.messages[4].agentType
    /\ store.conversation.agentType = store.messages[4].agentType
    /\ store.conversation.agentType \in ResponderCategories

\* ---------------------------------------------------------------------
\* C28  Two sendMessage calls on one conversation, side by side

RowsOf(i) == {k \in DOMAIN store.messages : store.messages[k].call = i}

\* Both callers' sendMessage calls returned, and the rows of the conversation
\* are the two rows of each: no call failed after a write.
BothReturned ==
    /\ \A i \in Callers : sends[i].pc = "returned"
    /\ \A i \in Callers : Cardinality(RowsOf(i)) = 2
    /\ Len(store.messages) = 4

LastAssistant ==
    CHOOSE k \in DOMAIN store.messages :
        /\ store.messages[k].role = "ASSISTANT"
        /\ \A j \in DOMAIN store.messages : store.messages[j].role = "ASSISTANT" => j <= k

\* C28: under any interleaving of two sendMessage calls on the same
\* conversation, once both have returned, the stored agentType of the
\* conversation is the agentType of the ASSISTANT message created last, and
\* each USER message is followed, next in creation order, by the ASSISTANT
\* message of its own call.
C28_InterleavedSends ==
    BothReturned =>
        /\ store.conversation.agentType = store.messages[LastAssistant].agentType
        /\ \A k \in DOMAIN store.messages :
              store.messages[k].role = "USER" =>
                  /\ k + 1 \in DOMAIN store.messages
                  /\ store.messages[k + 1].role = "ASSISTANT"
                  /\ store.messages[k + 1].call = store.messages[k].call

\* ---------------------------------------------------------------------
\* C29  sendMessage all or nothing

AtRest == \A i \in Callers : sends[i].pc \in {"idle", "returned", "failed"}

RowsWithRole(role) == {k \in DOMAIN store.messages : store.messages[k].role = role}

\* C29: sendMessage is all or nothing with respect to the store: once every
\* call has returned or failed, there are as many USER rows as ASSISTANT rows
\* (no USER message without its reply), and a call that created the
\* conversation and then failed has left no conversation behind.
C29_AllOrNothing ==
    AtRest =>
        /\ Cardinality(RowsWithRole("USER")) = Cardinality(RowsWithRole("ASSISTANT"))
        /\ \A i \in Callers :
              (sends[i].pc = "failed" /\ sends[i].error = "database call failed"
                    /\ sends[i].created /\ Len(store.messages) = 0)
                 => ~store.conversation.exists

\* ---------------------------------------------------------------------
\* C30  The order of the support responder's branches, and searchFAQs

SupportHandled == pc = "handled" /\ invoked[1].responder = "support"

\* The reasoning of the first later branch whose pattern the message matches.
LaterBranch(messageLower) ==
    IF isReturnRequest(messageLower) THEN "Provided return policy information"
    ELSE IF isAccountIssue(messageLower) THEN "Provided account assistance options"
    ELSE IF isContactRequest(messageLower) THEN "Provided contact information"
    ELSE IF isProductQuestion(messageLower) THEN "Provided product question guidance"
    ELSE "Provided general assistance options"

HistoryQueried == \E k \in DOMAIN toolCalls : toolCalls[k].name = "queryConversationHistory"

\* C30: the support responder answers by the first of: greeting, best FAQ,
\* return, account, contact, product, generic. A greeting is answered as one
\* even when FAQs match; for any other message with a non-empty FAQ list the
\* reply is built from the first FAQ, and neither a later branch nor
\* queryConversationHistory is reached. searchFAQs returns at most 5 entries,
\* each of relevance above 0, in non-increasing relevance, the first one of
\* the highest relevance among all FAQs.
C30_SupportPriority ==
    SupportHandled =>
        LET messageLower == toLowerCase(callMessage)
            faqs == searchFAQs(callMessage)
        IN  /\ Len(faqs) <= 5
            /\ \A k \in DOMAIN faqs : faqs[k].relevance > 0
            /\ \A k \in DOMAIN faqs : k > 1 => faqs[k - 1].relevance >= faqs[k].relevance
            /\ \A i \in DOMAIN FaqData :
                  LET relevance == calculateRelevance(messageLower, FaqTexts[i])
                  IN  /\ relevance > 0 => Len(faqs) > 0 /\ relevance <= faqs[1].relevance
                      /\ Len(faqs) < 5 /\ relevance > 0 =>
                            \E k \in DOMAIN faqs : faqs[k].question = FaqData[i].question
            /\ isGreeting(messageLower) =>
                  /\ handlerResponse.reasoning = "Provided greeting and help options"
                  /\ ~HistoryQueried
            /\ (~isGreeting(messageLower) /\ Len(faqs) > 0) =>
                  /\ handlerResponse.reasoning = "Matched FAQ: " \o faqs[1].category
                  /\ handlerResponse.content =
                        "**" \o faqs[1].question \o "**\n\n" \o faqs[1].answer
                          \o "\n\n*Category: " \o faqs[1].category
                          \o "*\n\nIs this helpful, or would you like more assistance?"
                  /\ ~HistoryQueried
            /\ (~isGreeting(messageLower) /\ Len(faqs) = 0) =>
                  /\ handlerResponse.reasoning = LaterBranch(messageLower)
                  /\ HistoryQueried
            /\ handlerResponse.agentType = "SUPPORT"

\* Witness: a message that only starts like a greeting and matches FAQs too
\* was answered as a greeting.
C30_Witness ==
    /\ SupportHandled
    /\ isGreeting(toLowerCase(callMessage))
    /\ Len(searchFAQs(callMessage)) = 5
    /\ handlerResponse.reasoning = "Provided greeting and help options"

====
